---- MODULE Spec2Model ----
(***************************************************************************)
(* State-machine model of the VirtualizedTreeView component                *)
(* (src/src/VirtualizedTreeView.tsx): the TreeNode class, the pure tree    *)
(* helpers (findNodeAndPath, flattenTree, updateNodeInChildren,            *)
(* addNodeAtPath, findAndRemoveNode), the React state of the component and *)
(* its handlers (toggleNode, handleSelectNode, handleStartMove,            *)
(* handleCompleteMove, the imperative handle).                             *)
(*                                                                         *)
(* A value of type `TreeNode[] | null` is a record [arr, items]: arr is    *)
(* Array.isArray(value), items the array (<<>> for null).  A TreeNode is a *)
(* record [id, name, hasChildren, children, obj] whose children field is   *)
(* such a value and whose obj field tells the objects a call allocates     *)
(* from those that existed before it.  `null` ids are the string NoId, a   *)
(* null TreeNode is NoNode.                                                *)
(***************************************************************************)
EXTENDS Integers, Sequences, FiniteSets, TLC

\* ------------------------------------------------------------------ values

NoId == "none"

Null == [arr |-> FALSE, items |-> <<>>]

Arr(s) == [arr |-> TRUE, items |-> s]

NoNode == [id |-> NoId, name |-> "", hasChildren |-> FALSE, children |-> Null,
           obj |-> "none"]

Range(s) == {s[i] : i \in 1..Len(s)}

\* new TreeNode(data): copies id, name, hasChildren and rebuilds the children
\* recursively when data.children is an array, else null.  Every instance it
\* makes is a new object: obj tells an object allocated by the call at hand
\* from one that existed before it (see Existing).
RECURSIVE TreeNode(_)
TreeNode(data) ==
    [id |-> data.id,
     name |-> data.name,
     hasChildren |-> data.hasChildren,
     obj |-> "allocated",
     children |-> IF data.children.arr
                  THEN Arr([i \in 1..Len(data.children.items) |->
                               TreeNode(data.children.items[i])])
                  ELSE Null]

\* node.clone() with no overrides: the children array is shallow-copied and
\* hasChildren recomputed from it when loaded, both kept when unloaded.
cloneNoOverrides(node) ==
    IF node.children.arr
    THEN [TreeNode([node EXCEPT !.children = Null]) EXCEPT
             !.children = node.children,
             !.hasChildren = Len(node.children.items) > 0]
    ELSE [TreeNode([node EXCEPT !.children = Null]) EXCEPT
             !.children = Null,
             !.hasChildren = node.hasChildren]

\* node.withChildren(newChildren)
withChildren(node, newChildren) ==
    [cloneNoOverrides(node) EXCEPT
        !.children = newChildren,
        !.hasChildren = newChildren.arr /\ Len(newChildren.items) > 0]

\* a Partial<TreeNodeData>: keys are the properties it has
Partial(keys, id, name, hasChildren, children) ==
    [keys |-> keys, id |-> id, name |-> name, hasChildren |-> hasChildren,
     children |-> children]

\* the destructuring of updatedData that takes nothing out
restOfUpdatesAll(updatedData) == updatedData

\* const { id, children, ...restOfUpdates } = updatedData
restOfUpdates(updatedData) ==
    [updatedData EXCEPT !.keys = @ \ {"id", "children"}]

\* node.clone(overrides)
clone(node, overrides) ==
    LET has(k) == k \in overrides.keys
        rawData == [id |-> IF has("id") THEN overrides.id ELSE node.id,
                    name |-> IF has("name") THEN overrides.name ELSE node.name,
                    hasChildren |-> IF has("hasChildren")
                                    THEN overrides.hasChildren
                                    ELSE node.hasChildren,
                    children |-> IF has("children") THEN overrides.children
                                 ELSE Null]
        clonedNode == TreeNode(rawData)
    IN IF has("children") /\ ~overrides.children.arr
       THEN [clonedNode EXCEPT
                !.children = Null,
                !.hasChildren = IF has("hasChildren")
                                THEN overrides.hasChildren ELSE FALSE]
       ELSE IF has("children")
       THEN [clonedNode EXCEPT
                !.hasChildren = Len(clonedNode.children.items) > 0]
       ELSE IF node.children.arr
       THEN [clonedNode EXCEPT
                !.children = node.children,
                !.hasChildren = Len(node.children.items) > 0]
       ELSE [clonedNode EXCEPT
                !.children = Null,
                !.hasChildren = IF has("hasChildren")
                                THEN overrides.hasChildren
                                ELSE node.hasChildren]

\* ------------------------------------------------------------------ path finder

NotFound == [found |-> FALSE, nodeData |-> NoNode, path |-> <<>>]

RECURSIVE findNodeAndPath(_, _, _), findNodeAndPathFrom(_, _, _, _)
\* findNodeAndPath that does not hand the path accumulated so far down
findNodeAndPathPathLost(nodes, nodeId, currentPath) ==
    IF ~nodes.arr THEN NotFound
    ELSE findNodeAndPathFrom(nodes.items, 1, nodeId, <<>>)

findNodeAndPath(nodes, nodeId, currentPath) ==
    IF ~nodes.arr THEN NotFound
    ELSE findNodeAndPathFrom(nodes.items, 1, nodeId, currentPath)

\* the for-loop of findNodeAndPath, from index i on
findNodeAndPathFrom(items, i, nodeId, currentPath) ==
    IF i > Len(items) THEN NotFound
    ELSE LET node == items[i] IN
         IF node.id = nodeId
         THEN [found |-> TRUE, nodeData |-> node, path |-> currentPath]
         ELSE LET result == IF node.children.arr
                            THEN findNodeAndPath(node.children, nodeId,
                                                 Append(currentPath, node.id))
                            ELSE NotFound
              IN IF result.found THEN result
                 ELSE findNodeAndPathFrom(items, i + 1, nodeId, currentPath)

\* ------------------------------------------------------------------ node index

\* The nodes in the order buildNodeMap's traverse visits them.
RECURSIVE traverse(_), traverseFrom(_, _)
traverse(nodeList) ==
    IF ~nodeList.arr THEN <<>> ELSE traverseFrom(nodeList.items, 1)

traverseFrom(items, i) ==
    IF i > Len(items) THEN <<>>
    ELSE <<items[i]>> \o traverse(items[i].children) \o traverseFrom(items, i + 1)

\* nodeMap.get(id) on buildNodeMap(nodes): the last node set under that id.
nodeMapGet(nodes, id) ==
    LET all == traverse(nodes)
        hits == {i \in 1..Len(all) : all[i].id = id}
    IN IF hits = {} THEN NoNode
       ELSE all[CHOOSE i \in hits : \A j \in hits : j <= i]

\* ------------------------------------------------------------------ flattener

RECURSIVE flattenTree(_, _, _, _), flattenTreeFrom(_, _, _, _, _)
\* flattenTree that loses the depth of the level it is called for
flattenTreeDepthLost(nodes, openSet, depth, loading) ==
    IF ~nodes.arr THEN <<>>
    ELSE flattenTreeFrom(nodes.items, 1, openSet, 0, loading)

flattenTree(nodes, openSet, depth, loading) ==
    IF ~nodes.arr THEN <<>>
    ELSE flattenTreeFrom(nodes.items, 1, openSet, depth, loading)

\* the forEach of flattenTree, from index i on
flattenTreeFrom(items, i, openSet, depth, loading) ==
    IF i > Len(items) THEN <<>>
    ELSE LET node == items[i]
             isOpen == node.id \in openSet
             isLoading == node.id \in loading
             isLoaded == node.children.arr
             effectiveHasChildren ==
                 node.hasChildren \/ (isLoaded /\ Len(node.children.items) > 0)
             flatNode == [id |-> node.id,
                          name |-> node.name,
                          depth |-> depth,
                          hasChildren |-> effectiveHasChildren,
                          originalHasChildren |-> node.hasChildren,
                          isLoaded |-> isLoaded,
                          isLoadingChildren |-> isLoading,
                          isOpen |-> isOpen]
             below == IF isOpen /\ isLoaded /\ Len(node.children.items) > 0
                      THEN flattenTree(node.children, openSet, depth + 1, loading)
                      ELSE <<>>
         IN <<flatNode>> \o below
               \o flattenTreeFrom(items, i + 1, openSet, depth, loading)

\* ------------------------------------------------------------------ mutation engine

\* updateNodeInChildren: [list, changed]; list is the returned array, changed
\* tells whether it is a new array (the `changed` flag of the code).
RECURSIVE updateNodeInChildrenC(_, _, _)
updateNodeInChildrenC(nodes, nodeId, newChildrenData) ==
    IF ~nodes.arr THEN [list |-> nodes, changed |-> FALSE]
    ELSE LET n == Len(nodes.items)
             sub == [i \in 1..n |->
                       LET node == nodes.items[i] IN
                       IF node.id # nodeId /\ node.children.arr
                          /\ Len(node.children.items) > 0
                       THEN updateNodeInChildrenC(node.children, nodeId,
                                                  newChildrenData)
                       ELSE [list |-> node.children, changed |-> FALSE]]
             mapped == [i \in 1..n |->
                       LET node == nodes.items[i] IN
                       IF node.id = nodeId
                       THEN withChildren(node,
                              Arr([k \in 1..Len(newChildrenData) |->
                                      TreeNode(newChildrenData[k])]))
                       ELSE IF sub[i].changed
                            THEN withChildren(node, sub[i].list)
                            ELSE node]
             changed == \E i \in 1..n :
                           nodes.items[i].id = nodeId \/ sub[i].changed
         IN IF changed THEN [list |-> Arr(mapped), changed |-> TRUE]
            ELSE [list |-> nodes, changed |-> FALSE]

updateNodeInChildren(nodes, nodeId, newChildrenData) ==
    updateNodeInChildrenC(nodes, nodeId, newChildrenData).list

\* updateRecursively of addNodeAtPath: [list, changed].
RECURSIVE updateRecursively(_, _, _)
updateRecursively(currentNodes, currentPath, newNodeInstance) ==
    IF ~currentNodes.arr THEN [list |-> currentNodes, changed |-> FALSE]
    ELSE LET parentId == Head(currentPath)
             remainingPath == Tail(currentPath)
             n == Len(currentNodes.items)
             sub == [i \in 1..n |->
                       LET node == currentNodes.items[i] IN
                       IF node.id = parentId /\ Len(remainingPath) > 0
                       THEN updateRecursively(node.children, remainingPath,
                                              newNodeInstance)
                       ELSE [list |-> node.children, changed |-> FALSE]]
             mapped == [i \in 1..n |->
                       LET node == currentNodes.items[i] IN
                       IF node.id = parentId
                       THEN IF Len(remainingPath) = 0
                            THEN IF node.children.arr
                                 THEN withChildren(node,
                                        Arr(Append(node.children.items,
                                                   newNodeInstance)))
                                 ELSE node
                            ELSE IF sub[i].changed
                                 THEN withChildren(node, sub[i].list)
                                 ELSE node
                       ELSE node]
             listChanged == \E i \in 1..n :
                   LET node == currentNodes.items[i] IN
                   /\ node.id = parentId
                   /\ IF Len(remainingPath) = 0 THEN node.children.arr
                      ELSE sub[i].changed
         IN IF listChanged THEN [list |-> Arr(mapped), changed |-> TRUE]
            ELSE [list |-> currentNodes, changed |-> FALSE]

\* addNodeAtPath that inserts the node without the children it came with
addNodeAtPathWithoutChildren(nodes, path, newNodeInput) ==
    LET newNodeInstance == TreeNode([newNodeInput EXCEPT !.children = Null]) IN
    IF ~nodes.arr
    THEN IF Len(path) = 0
         THEN [list |-> Arr(<<newNodeInstance>>), changed |-> TRUE]
         ELSE [list |-> nodes, changed |-> FALSE]
    ELSE IF Len(path) = 0
         THEN [list |-> Arr(Append(nodes.items, newNodeInstance)),
               changed |-> TRUE]
         ELSE updateRecursively(nodes, path, newNodeInstance)

\* addNodeAtPath: [list, changed]; changed is `result !== nodes`.
addNodeAtPath(nodes, path, newNodeInput) ==
    LET newNodeInstance == TreeNode(newNodeInput) IN
    IF ~nodes.arr
    THEN IF Len(path) = 0
         THEN [list |-> Arr(<<newNodeInstance>>), changed |-> TRUE]
         ELSE [list |-> nodes, changed |-> FALSE]
    ELSE IF Len(path) = 0
         THEN [list |-> Arr(Append(nodes.items, newNodeInstance)),
               changed |-> TRUE]
         ELSE updateRecursively(nodes, path, newNodeInstance)

\* splice(i) without its count: everything from index i on is dropped
RemoveFrom(s, i) == SubSeq(s, 1, i - 1)

\* s without its element at index i
RemoveAt(s, i) == [k \in 1..(Len(s) - 1) |-> IF k < i THEN s[k] ELSE s[k + 1]]

\* processNodeList of findAndRemoveNode: [list, changed, removed, removedNode];
\* list is the returned value (null when the list became empty), changed tells
\* whether it differs by reference from nodeList.
RECURSIVE processNodeList(_, _), processNodeListMap(_, _, _)
processNodeList(nodeList, nodeIdToRemove) ==
    LET hits == {i \in 1..Len(nodeList.items) :
                    nodeList.items[i].id = nodeIdToRemove}
    IN IF hits # {}
       THEN LET nodeIndex == CHOOSE i \in hits : \A j \in hits : i <= j
                updatedList == RemoveAt(nodeList.items, nodeIndex)
            IN [list |-> IF Len(updatedList) = 0 THEN Null ELSE Arr(updatedList),
                changed |-> TRUE,
                removed |-> TRUE,
                removedNode |-> nodeList.items[nodeIndex]]
       ELSE LET m == processNodeListMap(nodeList.items, 1, nodeIdToRemove)
            IN IF m.changed
               THEN [list |-> Arr(m.items), changed |-> TRUE,
                     removed |-> m.removed, removedNode |-> m.removedNode]
               ELSE [list |-> nodeList, changed |-> FALSE,
                     removed |-> m.removed, removedNode |-> m.removedNode]

\* the nodeList.map of processNodeList from index i on; once a node has been
\* removed the remaining nodes are returned as they are.
processNodeListMap(items, i, nodeIdToRemove) ==
    IF i > Len(items)
    THEN [items |-> <<>>, changed |-> FALSE, removed |-> FALSE,
          removedNode |-> NoNode]
    ELSE LET node == items[i]
             r == IF node.children.arr
                  THEN processNodeList(node.children, nodeIdToRemove)
                  ELSE [list |-> node.children, changed |-> FALSE,
                        removed |-> FALSE, removedNode |-> NoNode]
             here == IF r.changed THEN withChildren(node, r.list) ELSE node
         IN IF r.removed
            THEN [items |-> <<here>> \o SubSeq(items, i + 1, Len(items)),
                  changed |-> r.changed, removed |-> TRUE,
                  removedNode |-> r.removedNode]
            ELSE LET rest == processNodeListMap(items, i + 1, nodeIdToRemove)
                 IN [items |-> <<here>> \o rest.items,
                     changed |-> r.changed \/ rest.changed,
                     removed |-> rest.removed,
                     removedNode |-> rest.removedNode]

\* findAndRemoveNode: [updatedTree, removed, removedNode]
findAndRemoveNode(nodes, nodeIdToRemove) ==
    IF ~nodes.arr
    THEN [updatedTree |-> nodes, removed |-> FALSE, removedNode |-> NoNode]
    ELSE LET r == processNodeList(nodes, nodeIdToRemove)
         IN [updatedTree |-> IF r.changed THEN r.list ELSE nodes,
             removed |-> r.removed,
             removedNode |-> r.removedNode]

\* processList of updateNodeData: [list, changed]; every node with the id is
\* cloned, the children of a node that has the id are not searched.
RECURSIVE processList(_, _, _)
\* processList that copies every node of a list it changes
processListAllCloned(nodeList, nodeId, updatedData) ==
    LET n == Len(nodeList.items)
        sub == [i \in 1..n |->
                  LET node == nodeList.items[i] IN
                  IF node.id # nodeId /\ node.children.arr
                  THEN processList(node.children, nodeId, updatedData)
                  ELSE [list |-> node.children, changed |-> FALSE]]
        mappedList == [i \in 1..n |->
                  LET node == nodeList.items[i] IN
                  IF node.id = nodeId
                  THEN clone(node, restOfUpdates(updatedData))
                  ELSE IF sub[i].changed
                       THEN withChildren(node, sub[i].list)
                       ELSE cloneNoOverrides(node)]
        listChanged == \E i \in 1..n :
                          nodeList.items[i].id = nodeId \/ sub[i].changed
    IN IF listChanged THEN [list |-> Arr(mappedList), changed |-> TRUE]
       ELSE [list |-> nodeList, changed |-> FALSE]

processList(nodeList, nodeId, updatedData) ==
    LET n == Len(nodeList.items)
        sub == [i \in 1..n |->
                  LET node == nodeList.items[i] IN
                  IF node.id # nodeId /\ node.children.arr
                  THEN processList(node.children, nodeId, updatedData)
                  ELSE [list |-> node.children, changed |-> FALSE]]
        mappedList == [i \in 1..n |->
                  LET node == nodeList.items[i] IN
                  IF node.id = nodeId
                  THEN clone(node, restOfUpdates(updatedData))
                  ELSE IF sub[i].changed
                       THEN withChildren(node, sub[i].list)
                       ELSE node]
        listChanged == \E i \in 1..n :
                          nodeList.items[i].id = nodeId \/ sub[i].changed
    IN IF listChanged THEN [list |-> Arr(mappedList), changed |-> TRUE]
       ELSE [list |-> nodeList, changed |-> FALSE]

\* updateNodeData: [updatedTree, success]
updateNodeData(nodes, nodeId, updatedData) ==
    IF ~nodes.arr THEN [updatedTree |-> nodes, success |-> FALSE]
    ELSE LET r == processList(nodes, nodeId, updatedData)
         IN [updatedTree |-> IF r.changed THEN r.list ELSE nodes,
             success |-> r.changed]

\* findAllDescendantIds: breadth-first over the queue of node instances.
RECURSIVE findAllDescendantIdsLoop(_, _)
findAllDescendantIdsLoop(queue, nodes) ==
    IF Len(queue) = 0 THEN <<>>
    ELSE LET current == Head(queue)
             fullCurrentNode == nodeMapGet(nodes, current.id)
             more == IF fullCurrentNode # NoNode /\ fullCurrentNode.children.arr
                     THEN fullCurrentNode.children.items ELSE <<>>
         IN <<current.id>> \o findAllDescendantIdsLoop(Tail(queue) \o more, nodes)

\* findAllDescendantIds that stops at the children of the node
findAllDescendantIdsChildrenOnly(nodes, parentId) ==
    LET parentNode == nodeMapGet(nodes, parentId) IN
    IF parentNode = NoNode \/ ~parentNode.children.arr THEN <<>>
    ELSE [i \in 1..Len(parentNode.children.items) |->
             parentNode.children.items[i].id]

findAllDescendantIds(nodes, parentId) ==
    LET parentNode == nodeMapGet(nodes, parentId) IN
    IF parentNode = NoNode \/ ~parentNode.children.arr THEN <<>>
    ELSE findAllDescendantIdsLoop(parentNode.children.items, nodes)

\* ------------------------------------------------------------------ cascading checkboxes

IdSeq(list) == [i \in 1..Len(list) |-> list[i].id]

\* the while loop of findAllLoadedDescendantIds: the ids pushed, in order
RECURSIVE findAllLoadedDescendantIdsLoop(_, _, _)
findAllLoadedDescendantIdsLoop(queue, visited, nodes) ==
    IF Len(queue) = 0 THEN <<>>
    ELSE LET currentId == Head(queue)
             node == nodeMapGet(nodes, currentId)
             seen == visited \cup {currentId}
             more == IF node # NoNode /\ node.children.arr
                     THEN SelectSeq(IdSeq(node.children.items),
                                    LAMBDA c : c \notin seen)
                     ELSE <<>>
         IN IF currentId \in visited
            THEN findAllLoadedDescendantIdsLoop(Tail(queue), visited, nodes)
            ELSE <<currentId>> \o
                 findAllLoadedDescendantIdsLoop(Tail(queue) \o more, seen, nodes)

\* findAllLoadedDescendantIds that does not descend
findAllLoadedDescendantIdsSelfOnly(startNodeId, nodes) == <<startNodeId>>

\* findAllLoadedDescendantIds(startNodeId, nodeMap) on the map built of nodes
findAllLoadedDescendantIds(startNodeId, nodes) ==
    findAllLoadedDescendantIdsLoop(<<startNodeId>>, {}, nodes)

\* the for loop of handleCheckboxChange over ancestorPath, from index i down
RECURSIVE updateAncestors(_, _, _, _)
updateAncestors(nodes, ancestorPath, i, newCheckedNodes) ==
    IF i < 1 THEN newCheckedNodes
    ELSE LET ancestorId == ancestorPath[i]
             ancestorNode == nodeMapGet(nodes, ancestorId)
             allChildrenChecked ==
                 \A k \in 1..Len(ancestorNode.children.items) :
                     ancestorNode.children.items[k].id \in newCheckedNodes
         IN IF ancestorNode = NoNode \/ ~ancestorNode.children.arr
               \/ Len(ancestorNode.children.items) = 0
            THEN updateAncestors(nodes, ancestorPath, i - 1, newCheckedNodes)
            ELSE updateAncestors(nodes, ancestorPath, i - 1,
                    IF allChildrenChecked
                    THEN newCheckedNodes \cup {ancestorId}
                    ELSE newCheckedNodes \ {ancestorId})

\* handleCheckboxChange that leaves the ancestors as they are
handleCheckboxChangeNoAncestors(nodes, checked, clickedNodeId) ==
    LET descendantIds == Range(findAllLoadedDescendantIds(clickedNodeId, nodes))
    IN IF clickedNodeId \notin checked THEN checked \cup descendantIds
       ELSE checked \ descendantIds

\* handleCheckboxChange(clickedNodeId) with treeData = nodes and
\* checkedNodes = checked: the set it hands to setCheckedNodes; the callers
\* see to the early return on an empty node map
handleCheckboxChange(nodes, checked, clickedNodeId) ==
    LET shouldBeChecked == clickedNodeId \notin checked
        descendantIds == Range(findAllLoadedDescendantIds(clickedNodeId, nodes))
        newCheckedNodes == IF shouldBeChecked THEN checked \cup descendantIds
                           ELSE checked \ descendantIds
        found == findNodeAndPath(nodes, clickedNodeId, <<>>)
    IN IF found.found
       THEN updateAncestors(nodes, found.path, Len(found.path), newCheckedNodes)
       ELSE newCheckedNodes

\* isIndeterminate of the row of node in the render, with showCheckboxes on
isIndeterminate(nodes, checked, node) ==
    IF node.hasChildren /\ node.id \notin checked
    THEN LET hierarchicalNode == nodeMapGet(nodes, node.id) IN
         IF hierarchicalNode # NoNode /\ hierarchicalNode.children.arr
         THEN LET loadedChildren == hierarchicalNode.children.items
                  checkedChildrenCount ==
                      Cardinality({k \in 1..Len(loadedChildren) :
                                      loadedChildren[k].id \in checked})
              IN Len(loadedChildren) > 0 /\ checkedChildrenCount > 0
         ELSE FALSE
    ELSE FALSE

\* ------------------------------------------------------------------ bounds and inputs

\* expansion specification: at most this many toggle/expand/collapse commands
\* and this many removeNode commands in one behaviour
MaxToggles == 4

MaxRemovals == 2

\* editing specification: at most this many toggles and this many
\* add/remove/move commands in one behaviour
MaxEditToggles == 2

MaxMutations == 2

\* selection specification: at most this many toggles, this many
\* remove/move commands and this many selectNode commands in one behaviour
MaxSelectToggles == 2

MaxSelectMutations == 1

MaxSelects == 2

\* command specification: at most this many toggles and this many
\* add/remove/update commands in one behaviour
MaxApiToggles == 2

MaxApiMutations == 2

\* checkbox specification: at most this many toggles, this many add/remove
\* commands and this many checkbox clicks and setCheckedNodes commands in
\* one behaviour
MaxCheckToggles == 1

MaxCheckMutations == 1

MaxChecks == 3

\* the specification of the read commands: toggles, addNode calls and
\* getNodeHierarchy calls
MaxReadToggles == 2

MaxReadMutations == 1

MaxReads == 2

\* the specification of collapsing: expandNode and collapseNode calls, and
\* addNode calls
MaxCollapseToggles == 4

MaxCollapseMutations == 1

\* the specification of closing rows: toggles and collapseNode calls, and
\* checkbox clicks
MaxFoldToggles == 3

MaxFoldChecks == 1

\* the specification of merging fetch results: toggles and expandNode
\* calls, and addNode, removeNode and updateNode calls
MaxMergeToggles == 3

MaxMergeMutations == 1

\* the specification of the keyboard: toggles made with the arrow keys, and
\* moves and addNode calls
MaxKeyToggles == 3

MaxKeyMutations == 1

\* the specification of updateNode on declared folders: toggles, and
\* addNode and updateNode calls
MaxUpdateToggles == 2

MaxUpdateMutations == 2

\* toggles and checkbox clicks on a tree that stays as it is once clicked
MaxFixedToggles == 3
MaxFixedChecks == 3
MaxFixedMutations == 1

\* toggles, checkbox clicks and removals around a reload of the top level
MaxReloadToggles == 2
MaxReloadChecks == 1
MaxReloadRemovals == 2

\* raw node as a fetch collaborator returns it
Raw(id, hasChildren, children) ==
    [id |-> id, name |-> "n", hasChildren |-> hasChildren, children |-> children]

\* what fetchTopLevelNodes resolves to: a folder and a loaded-empty file
TopLevelData == <<Raw("A", TRUE, Null), Raw("B", FALSE, Arr(<<>>))>>

\* another fetchTopLevelNodes: B is a folder loaded with no children, like
\* root-3 of the example application
TopLevelFolderData == <<Raw("A", TRUE, Null), Raw("B", TRUE, Arr(<<>>))>>

\* what fetchChildrenForNode(id) resolves to when it resolves
ChildrenData(id) ==
    IF id = "A" THEN <<Raw("A1", TRUE, Null), Raw("A2", TRUE, Null)>>
    ELSE <<>>

\* ids of the nodes the collaborators can deliver, and of nodes callers add
FetchedIds == {"A", "B", "A1", "A2"}

NewIds == {"N"}

AllIds == FetchedIds \cup NewIds

\* a node a caller passes to addNode
NewNodeData(id) == Raw(id, FALSE, Null)

\* the partial data callers pass to updateNode: a new name; a new name with
\* another id; an empty children list with hasChildren false; hasChildren
\* true with children null
UpdateData ==
    {Partial({"name"}, NoId, "m", FALSE, Null),
     Partial({"id", "name"}, "Z", "m", FALSE, Null),
     Partial({"hasChildren", "children"}, NoId, "", FALSE, Arr(<<>>)),
     Partial({"hasChildren", "children"}, NoId, "", TRUE, Null)}

\* ------------------------------------------------------------------ state

VARIABLES
    treeData,          \* TreeNode[] | null
    isLoadingInitial,  \* boolean
    error,             \* the error state shown in the overlay ("none" = null)
    openNodes,         \* Set<string>
    loadingChildren,   \* Set<string>
    selectedNodeId,    \* string | null
    nodeToMove,        \* TreeNode | null
    checkedNodes,      \* Set<string>
    topFetches,        \* number of fetchTopLevelNodes() promises pending
    calls,             \* the toggleNode / expandNode calls waiting on fetches
    last,              \* the last handler that ran, its arguments, result and notifications
    budget,            \* commands issued so far, per class
    limits             \* the bounds on them in this specification

vars == <<treeData, isLoadingInitial, error, openNodes, loadingChildren,
          selectedNodeId, nodeToMove, checkedNodes, topFetches, calls, last,
          budget, limits>>

flatNodes == flattenTree(treeData, openNodes, 0, loadingChildren)

IdsOf(nodes) == {n.id : n \in Range(traverse(nodes))}

InTree(id) == findNodeAndPath(treeData, id, <<>>).found

\* the record `last` of a handler: op, the id it is about, its other argument,
\* its return value, the number of onError calls and the onNodeSelect calls
\* made; for the end of a suspended call, closure is the treeData it held;
\* key is the key pressed when the handler ran from handleKeyDown
Did(op, id, arg, ret, onError, onNodeSelect) ==
    [op |-> op, id |-> id, arg |-> arg, ret |-> ret, onError |-> onError,
     onNodeSelect |-> onNodeSelect, via |-> "none", data |-> <<>>,
     disturbed |-> FALSE, closure |-> Null, key |-> "none"]

InitState ==
    /\ treeData = Null
    /\ isLoadingInitial = TRUE
    /\ error = "none"
    /\ openNodes = {}
    /\ loadingChildren = {}
    /\ selectedNodeId = NoId
    /\ nodeToMove = NoNode
    /\ checkedNodes = {}
    /\ topFetches = 1
    /\ calls = {}
    /\ last = Did("init", NoId, NoId, "none", 0, <<>>)
    /\ budget = [mut |-> 0, tog |-> 0, chk |-> 0, sel |-> 0]

Init ==
    /\ InitState
    /\ limits = [tog |-> MaxToggles, mut |-> MaxRemovals, chk |-> 0, sel |-> 0]

InitEdit ==
    /\ InitState
    /\ limits = [tog |-> MaxEditToggles, mut |-> MaxMutations, chk |-> 0,
                 sel |-> 0]

InitSelect ==
    /\ InitState
    /\ limits = [tog |-> MaxSelectToggles, mut |-> MaxSelectMutations,
                 chk |-> 0, sel |-> MaxSelects]

InitCheck ==
    /\ InitState
    /\ limits = [tog |-> MaxCheckToggles, mut |-> MaxCheckMutations,
                 chk |-> MaxChecks, sel |-> 0]

InitRead ==
    /\ InitState
    /\ limits = [tog |-> MaxReadToggles, mut |-> MaxReadMutations, chk |-> 0,
                 sel |-> MaxReads]

InitCollapse ==
    /\ InitState
    /\ limits = [tog |-> MaxCollapseToggles, mut |-> MaxCollapseMutations,
                 chk |-> 0, sel |-> 0]

InitFold ==
    /\ InitState
    /\ limits = [tog |-> MaxFoldToggles, mut |-> 0, chk |-> MaxFoldChecks,
                 sel |-> 0]

InitMerge ==
    /\ InitState
    /\ limits = [tog |-> MaxMergeToggles, mut |-> MaxMergeMutations,
                 chk |-> 0, sel |-> 0]

InitKeys ==
    /\ InitState
    /\ limits = [tog |-> MaxKeyToggles, mut |-> MaxKeyMutations, chk |-> 0,
                 sel |-> 0]

InitUpdate ==
    /\ InitState
    /\ limits = [tog |-> MaxUpdateToggles, mut |-> MaxUpdateMutations,
                 chk |-> 0, sel |-> 0]

InitReload ==
    /\ InitState
    /\ limits = [tog |-> MaxReloadToggles, mut |-> MaxReloadRemovals,
                 chk |-> MaxReloadChecks, sel |-> 0]

InitFixed ==
    /\ InitState
    /\ limits = [tog |-> MaxFixedToggles, mut |-> MaxFixedMutations,
                 chk |-> MaxFixedChecks, sel |-> 0]

InitApi ==
    /\ InitState
    /\ limits = [tog |-> MaxApiToggles, mut |-> MaxApiMutations, chk |-> 0,
                 sel |-> 0]

\* the initial-fetch effect: it runs after a render in which treeData is null
\* and was not null before
EffectFetches(newTree) ==
    IF ~newTree.arr /\ treeData.arr THEN topFetches + 1 ELSE topFetches

\* isLoadingInitial after the same effect: set when it fetches
EffectLoading(newTree) ==
    IF ~newTree.arr /\ treeData.arr THEN TRUE ELSE isLoadingInitial

\* pending calls on nodes that an action takes out of the tree or closes are
\* marked, so that claims about an undisturbed fetch can say so
Disturb(ids) ==
    {IF c.toFetch \cap ids # {} THEN [c EXCEPT !.disturbed = TRUE] ELSE c :
        c \in calls}

\* ------------------------------------------------------------------ initial fetch

\* the resolve without the reset of the open set and the checked set
TopFetchResolveToKeepsSets(data) ==
    /\ topFetches > 0
    /\ LET initialTreeNodes == [i \in 1..Len(data) |-> TreeNode(data[i])]
       IN /\ treeData' = Arr(initialTreeNodes)
          /\ openNodes' = openNodes
          /\ selectedNodeId' = IF Len(initialTreeNodes) > 0
                               THEN initialTreeNodes[1].id ELSE NoId
          /\ checkedNodes' = checkedNodes
          /\ calls' = Disturb(AllIds)
    /\ isLoadingInitial' = FALSE
    /\ topFetches' = topFetches - 1
    /\ last' = Did("topFetchResolved", NoId,
                   IF openNodes # {} /\ checkedNodes # {} THEN "reset" ELSE NoId,
                   "none", 0, <<>>)
    /\ UNCHANGED <<error, loadingChildren, nodeToMove, budget, limits>>

\* the promise of fetchTopLevelNodes resolves to data; last.arg tells whether
\* the open set and the checked set both held ids when it did
TopFetchResolveTo(data) ==
    /\ topFetches > 0
    /\ LET initialTreeNodes == [i \in 1..Len(data) |-> TreeNode(data[i])]
       IN /\ treeData' = Arr(initialTreeNodes)
          /\ openNodes' = {}
          /\ selectedNodeId' = IF Len(initialTreeNodes) > 0
                               THEN initialTreeNodes[1].id ELSE NoId
          /\ checkedNodes' = {}
          /\ calls' = Disturb(AllIds)
    /\ isLoadingInitial' = FALSE
    /\ topFetches' = topFetches - 1
    /\ last' = Did("topFetchResolved", NoId,
                   IF openNodes # {} /\ checkedNodes # {} THEN "reset" ELSE NoId,
                   "none", 0, <<>>)
    /\ UNCHANGED <<error, loadingChildren, nodeToMove, budget, limits>>

TopFetchResolve == TopFetchResolveTo(TopLevelData)

\* the same with a collaborator that delivers B as an empty folder
TopFetchResolveFolder == TopFetchResolveTo(TopLevelFolderData)

TopFetchReject ==
    /\ topFetches > 0
    /\ error' = "fetch"
    /\ isLoadingInitial' = FALSE
    /\ topFetches' = topFetches - 1
    /\ last' = Did("topFetchRejected", NoId, NoId, "none", 1, <<>>)
    /\ UNCHANGED <<treeData, openNodes, loadingChildren, selectedNodeId,
                   nodeToMove, checkedNodes, calls, budget, limits>>


\* ------------------------------------------------------------------ expand / collapse

\* a toggleNode or expandNode call suspended at its await: its arguments
\* (root, recursive), the ids it fetches (in the order of nodesToFetch), the
\* outcome of each fetch so far, the treeData its closure holds, and for
\* toggleNode the newOpenNodes set its closure holds
Call(kind, order, snap, root, recursive) ==
    [kind |-> kind, order |-> order, toFetch |-> Range(order), snap |-> snap,
     root |-> root, recursive |-> recursive, tree |-> treeData,
     results |-> [id \in Range(order) |-> "pending"], disturbed |-> FALSE]

\* toggleNode(flatNode) for the row at index i, called from a click (key
\* "none") or from handleKeyDown; the toggle is rendered only on
\* rows whose hasChildren is true
ToggleNodeFrom(i, key) ==
    /\ budget.tog < limits.tog
    /\ i \in 1..Len(flatNodes)
    /\ flatNodes[i].hasChildren
    /\ LET flatNode == flatNodes[i]
           id == flatNode.id
           newOpenNodes == openNodes \cup {id}
       IN IF flatNode.isOpen
          THEN /\ openNodes' = openNodes \ {id}
               /\ calls' = Disturb({id})
               /\ last' = [Did("toggleClose", id, NoId, "none", 0, <<>>)
                               EXCEPT !.key = key]
               /\ UNCHANGED <<loadingChildren, error>>
          ELSE /\ openNodes' = newOpenNodes
               /\ IF flatNode.originalHasChildren /\ ~flatNode.isLoaded
                     /\ id \notin loadingChildren
                  THEN /\ loadingChildren' = loadingChildren \cup {id}
                       /\ error' = "none"
                       /\ calls' = calls \cup {Call("toggle", <<id>>, newOpenNodes,
                                                     id, FALSE)}
                       /\ last' = [Did("toggleOpenFetch", id, NoId, "none", 0,
                                        <<>>) EXCEPT !.key = key]
                  ELSE /\ last' = [Did("toggleOpen", id, NoId, "none", 0, <<>>)
                                       EXCEPT !.key = key]
                       /\ UNCHANGED <<loadingChildren, error, calls>>
    /\ budget' = [budget EXCEPT !.tog = @ + 1]
    /\ UNCHANGED limits
    /\ UNCHANGED <<treeData, isLoadingInitial, selectedNodeId, nodeToMove,
                   checkedNodes, topFetches>>

\* a click on the toggle of the row at index i
ToggleNode(i) == ToggleNodeFrom(i, "none")

\* a resolution that attaches the children to the treeData of the closure
ToggleFetchResolveOnClosure(c) ==
    /\ c \in calls /\ c.kind = "toggle"
    /\ LET id == c.order[1]
           childrenData == ChildrenData(id)
       IN /\ treeData' = updateNodeInChildren(c.tree, id, childrenData)
          /\ loadingChildren' = loadingChildren \ {id}
          /\ last' = [Did("fetchResolved", id, NoId, "none", 0, <<>>) EXCEPT
                         !.via = "toggle", !.data = childrenData,
                         !.disturbed = c.disturbed,
                         !.closure = c.tree]
    /\ calls' = calls \ {c}
    /\ UNCHANGED <<isLoadingInitial, error, openNodes, selectedNodeId,
                   nodeToMove, checkedNodes, topFetches, budget, limits>>

\* the fetch of a toggleNode call resolves: the try block after the await,
\* then the finally block
ToggleFetchResolve(c) ==
    /\ c \in calls /\ c.kind = "toggle"
    /\ LET id == c.order[1]
           childrenData == ChildrenData(id)
       IN /\ treeData' = updateNodeInChildren(treeData, id, childrenData)
          /\ loadingChildren' = loadingChildren \ {id}
          /\ last' = [Did("fetchResolved", id, NoId, "none", 0, <<>>) EXCEPT
                         !.via = "toggle", !.data = childrenData,
                         !.disturbed = c.disturbed,
                         !.closure = c.tree]
    /\ calls' = calls \ {c}
    /\ UNCHANGED <<isLoadingInitial, error, openNodes, selectedNodeId,
                   nodeToMove, checkedNodes, topFetches, budget, limits>>

\* the fetch of a toggleNode call rejects: the catch block, then finally
ToggleFetchReject(c) ==
    /\ c \in calls /\ c.kind = "toggle"
    /\ LET id == c.order[1] IN
          /\ error' = "fetch"
          /\ openNodes' = c.snap \ {id}
          /\ loadingChildren' = loadingChildren \ {id}
          /\ last' = [Did("fetchRejected", id, NoId, "none", 1, <<>>) EXCEPT
                         !.via = "toggle", !.disturbed = c.disturbed]
    /\ calls' = calls \ {c}
    /\ UNCHANGED <<treeData, isLoadingInitial, selectedNodeId, nodeToMove,
                   checkedNodes, topFetches, budget, limits>>

\* phase 1 of expandNode: [toOpen, toFetch]; toFetch in insertion order
RECURSIVE expandPhase1(_, _, _, _, _)
\* phase 1 that does not look at the loading set before it plans a fetch
expandPhase1NoLoadingCheck(queue, visited, nodesToOpen, nodesToFetch, recursive) ==
    IF Len(queue) = 0
    THEN [toOpen |-> nodesToOpen, toFetch |-> nodesToFetch]
    ELSE LET currentId == Head(queue)
             node == nodeMapGet(treeData, currentId)
         IN IF currentId \in visited \/ node = NoNode
            THEN expandPhase1(Tail(queue), visited \cup {currentId},
                              nodesToOpen, nodesToFetch, recursive)
            ELSE LET needsFetch == node.hasChildren /\ ~node.children.arr
                     fetchNow == IF needsFetch
                                    /\ currentId \notin Range(nodesToFetch)
                                 THEN Append(nodesToFetch, currentId)
                                 ELSE nodesToFetch
                     more == IF recursive /\ node.children.arr
                             THEN [k \in 1..Len(node.children.items) |->
                                      node.children.items[k].id]
                             ELSE <<>>
                 IN expandPhase1(Tail(queue) \o more,
                                 visited \cup {currentId},
                                 nodesToOpen \cup {currentId}, fetchNow,
                                 recursive)

expandPhase1(queue, visited, nodesToOpen, nodesToFetch, recursive) ==
    IF Len(queue) = 0
    THEN [toOpen |-> nodesToOpen, toFetch |-> nodesToFetch]
    ELSE LET currentId == Head(queue)
             node == nodeMapGet(treeData, currentId)
         IN IF currentId \in visited \/ node = NoNode
            THEN expandPhase1(Tail(queue), visited \cup {currentId},
                              nodesToOpen, nodesToFetch, recursive)
            ELSE LET needsFetch == /\ node.hasChildren
                                   /\ ~node.children.arr
                                   /\ currentId \notin loadingChildren
                     fetchNow == IF needsFetch
                                    /\ currentId \notin Range(nodesToFetch)
                                 THEN Append(nodesToFetch, currentId)
                                 ELSE nodesToFetch
                     more == IF recursive /\ node.children.arr
                             THEN [k \in 1..Len(node.children.items) |->
                                      node.children.items[k].id]
                             ELSE <<>>
                 IN expandPhase1(Tail(queue) \o more,
                                 visited \cup {currentId},
                                 nodesToOpen \cup {currentId}, fetchNow,
                                 recursive)

\* expandNode(nodeId, recursive) up to its await
ExpandNode(nodeId, recursive) ==
    /\ budget.tog < limits.tog
    /\ LET ph == expandPhase1(<<nodeId>>, {}, {}, <<>>, recursive) IN
          /\ openNodes' = openNodes \cup ph.toOpen
          /\ IF Len(ph.toFetch) > 0
             THEN /\ loadingChildren' = loadingChildren \cup Range(ph.toFetch)
                  /\ calls' = calls \cup {Call("expand", ph.toFetch, {}, nodeId,
                                             recursive)}
             ELSE UNCHANGED <<loadingChildren, calls>>
          /\ last' = [Did("expandNode", nodeId,
                          IF recursive THEN "recursive" ELSE "single", "none",
                          0, <<>>) EXCEPT
                         !.data = ph.toFetch]
    /\ error' = "none"
    /\ budget' = [budget EXCEPT !.tog = @ + 1]
    /\ UNCHANGED limits
    /\ UNCHANGED <<treeData, isLoadingInitial, selectedNodeId, nodeToMove,
                   checkedNodes, topFetches>>

\* the setTreeData updater of expandNode: the successful results applied in
\* the order of nodesToFetch
RECURSIVE applyResults(_, _, _)
\* an updater that gives up at the first failed result
applyResultsUntilError(tempTree, order, results) ==
    IF Len(order) = 0 \/ results[Head(order)] # "ok" THEN tempTree
    ELSE applyResults(updateNodeInChildren(tempTree, Head(order),
                                           ChildrenData(Head(order))),
                      Tail(order), results)

applyResults(tempTree, order, results) ==
    IF Len(order) = 0 THEN tempTree
    ELSE applyResults(
            IF results[Head(order)] = "ok"
            THEN updateNodeInChildren(tempTree, Head(order),
                                      ChildrenData(Head(order)))
            ELSE tempTree,
            Tail(order), results)

\* a settlement that releases the loading flag of its own fetch at once
ExpandFetchSettleReleasesEach(c, id, ok) ==
    /\ c \in calls /\ c.kind = "expand"
    /\ id \in c.toFetch /\ c.results[id] = "pending"
    /\ LET results == [c.results EXCEPT ![id] = IF ok THEN "ok" ELSE "error"]
           allSettled == \A k \in c.toFetch : results[k] # "pending"
       IN /\ error' = IF ok THEN error ELSE "fetch"
          /\ loadingChildren' = loadingChildren \ {id}
          /\ IF allSettled
             THEN /\ treeData' = applyResults(treeData, c.order, results)
                  /\ calls' = calls \ {c}
             ELSE /\ calls' = (calls \ {c}) \cup {[c EXCEPT !.results = results]}
                  /\ UNCHANGED treeData
          /\ last' = [Did(IF ok THEN "fetchResolved" ELSE "fetchRejected", id,
                          NoId, "none", IF ok THEN 0 ELSE 1, <<>>) EXCEPT
                         !.via = "expand",
                         !.data = IF ok THEN ChildrenData(id) ELSE <<>>,
                         !.arg = IF allSettled THEN "done" ELSE "waiting",
                         !.ret = IF allSettled THEN "resolved" ELSE "none",
                         !.disturbed = c.disturbed,
                         !.closure = c.tree]
    /\ UNCHANGED <<isLoadingInitial, openNodes, selectedNodeId, nodeToMove,
                   checkedNodes, topFetches, budget, limits>>

\* a settlement that merges the result of its own fetch at once
ExpandFetchSettleMergesEach(c, id, ok) ==
    /\ c \in calls /\ c.kind = "expand"
    /\ id \in c.toFetch /\ c.results[id] = "pending"
    /\ LET results == [c.results EXCEPT ![id] = IF ok THEN "ok" ELSE "error"]
           allSettled == \A k \in c.toFetch : results[k] # "pending"
       IN /\ error' = IF ok THEN error ELSE "fetch"
          /\ treeData' = IF ok
                         THEN updateNodeInChildren(treeData, id, ChildrenData(id))
                         ELSE treeData
          /\ IF allSettled
             THEN /\ loadingChildren' = loadingChildren \ c.toFetch
                  /\ calls' = calls \ {c}
             ELSE /\ calls' = (calls \ {c}) \cup {[c EXCEPT !.results = results]}
                  /\ UNCHANGED loadingChildren
          /\ last' = [Did(IF ok THEN "fetchResolved" ELSE "fetchRejected", id,
                          NoId, "none", IF ok THEN 0 ELSE 1, <<>>) EXCEPT
                         !.via = "expand",
                         !.data = IF ok THEN ChildrenData(id) ELSE <<>>,
                         !.arg = IF allSettled THEN "done" ELSE "waiting",
                         !.ret = IF allSettled THEN "resolved" ELSE "none",
                         !.disturbed = c.disturbed,
                         !.closure = c.tree]
    /\ UNCHANGED <<isLoadingInitial, openNodes, selectedNodeId, nodeToMove,
                   checkedNodes, topFetches, budget, limits>>

\* one fetch of an expandNode call settles (ok = it resolved); when it is the
\* last one, Promise.all resolves and the call runs to its end
ExpandFetchSettle(c, id, ok) ==
    /\ c \in calls /\ c.kind = "expand"
    /\ id \in c.toFetch /\ c.results[id] = "pending"
    /\ LET results == [c.results EXCEPT ![id] = IF ok THEN "ok" ELSE "error"]
           allSettled == \A k \in c.toFetch : results[k] # "pending"
       IN /\ error' = IF ok THEN error ELSE "fetch"
          /\ IF allSettled
             THEN /\ treeData' = applyResults(treeData, c.order, results)
                  /\ loadingChildren' = loadingChildren \ c.toFetch
                  /\ calls' = calls \ {c}
             ELSE /\ calls' = (calls \ {c}) \cup {[c EXCEPT !.results = results]}
                  /\ UNCHANGED <<treeData, loadingChildren>>
          /\ last' = [Did(IF ok THEN "fetchResolved" ELSE "fetchRejected", id,
                          NoId, "none", IF ok THEN 0 ELSE 1, <<>>) EXCEPT
                         !.via = "expand",
                         !.data = IF ok THEN ChildrenData(id) ELSE <<>>,
                         !.arg = IF allSettled THEN "done" ELSE "waiting",
                         !.ret = IF allSettled THEN "resolved" ELSE "none",
                         !.disturbed = c.disturbed,
                         !.closure = c.tree]
    /\ UNCHANGED <<isLoadingInitial, openNodes, selectedNodeId, nodeToMove,
                   checkedNodes, topFetches, budget, limits>>

\* collapseNode that also forgets the loading flags of the nodes it closes
CollapseNodeDropsLoading(nodeId, recursive) ==
    /\ budget.tog < limits.tog
    /\ LET nodesToClose == {nodeId} \cup
               (IF recursive THEN Range(findAllDescendantIds(treeData, nodeId))
                ELSE {})
       IN /\ openNodes' = openNodes \ nodesToClose
          /\ loadingChildren' = loadingChildren \ nodesToClose
          /\ calls' = Disturb(nodesToClose)
    /\ error' = "none"
    /\ last' = [Did("collapseNode", nodeId,
                     IF recursive THEN "recursive" ELSE "single", "none", 0,
                     <<>>) EXCEPT !.data = <<openNodes>>]
    /\ budget' = [budget EXCEPT !.tog = @ + 1]
    /\ UNCHANGED limits
    /\ UNCHANGED <<treeData, isLoadingInitial, selectedNodeId, nodeToMove,
                   checkedNodes, topFetches>>

\* collapseNode(nodeId, recursive); last.data holds the open set before
CollapseNode(nodeId, recursive) ==
    /\ budget.tog < limits.tog
    /\ LET nodesToClose == {nodeId} \cup
               (IF recursive THEN Range(findAllDescendantIds(treeData, nodeId))
                ELSE {})
       IN /\ openNodes' = openNodes \ nodesToClose
          /\ calls' = Disturb(nodesToClose)
    /\ error' = "none"
    /\ last' = [Did("collapseNode", nodeId,
                     IF recursive THEN "recursive" ELSE "single", "none", 0,
                     <<>>) EXCEPT !.data = <<openNodes>>]
    /\ budget' = [budget EXCEPT !.tog = @ + 1]
    /\ UNCHANGED limits
    /\ UNCHANGED <<treeData, isLoadingInitial, loadingChildren, selectedNodeId,
                   nodeToMove, checkedNodes, topFetches>>


\* ------------------------------------------------------------------ selection and move

\* moveValidation without the check of the target's children
moveValidationNoLoadedCheck(targetParentId) ==
    LET target == IF targetParentId # NoId
                  THEN findNodeAndPath(treeData, targetParentId, <<>>)
                  ELSE NotFound
        hasPath == targetParentId = NoId \/ target.found
    IN IF nodeToMove.id = targetParentId THEN "self"
       ELSE IF hasPath /\ nodeToMove.id \in Range(target.path) THEN "descendant"
       ELSE "ok"

\* moveValidation without the check for a move into the node itself
moveValidationNoSelfCheck(targetParentId) ==
    LET target == IF targetParentId # NoId
                  THEN findNodeAndPath(treeData, targetParentId, <<>>)
                  ELSE NotFound
        hasPath == targetParentId = NoId \/ target.found
    IN IF hasPath /\ nodeToMove.id \in Range(target.path) THEN "descendant"
       ELSE IF target.found /\ ~target.nodeData.children.arr THEN "expandFirst"
       ELSE "ok"

\* the three validations of handleCompleteMove, in the order of the code:
\* which one rejects targetParentId, or "ok"
moveValidation(targetParentId) ==
    LET target == IF targetParentId # NoId
                  THEN findNodeAndPath(treeData, targetParentId, <<>>)
                  ELSE NotFound
        hasPath == targetParentId = NoId \/ target.found
    IN IF nodeToMove.id = targetParentId THEN "self"
       ELSE IF hasPath /\ nodeToMove.id \in Range(target.path) THEN "descendant"
       ELSE IF target.found /\ ~target.nodeData.children.arr THEN "expandFirst"
       ELSE "ok"

\* handleCompleteMove(targetParentId) with nodeToMove set: the new values of
\* treeData, nodeToMove, selectedNodeId and error
handleCompleteMove(targetParentId) ==
    LET stay == [treeData |-> treeData, nodeToMove |-> nodeToMove,
                 selectedNodeId |-> selectedNodeId, error |-> "none",
                 moved |-> FALSE]
        target == IF targetParentId # NoId
                  THEN findNodeAndPath(treeData, targetParentId, <<>>)
                  ELSE NotFound
        targetPathArray == target.path
        verdict == moveValidation(targetParentId)
        rem == findAndRemoveNode(treeData, nodeToMove.id)
        finalTree == addNodeAtPath(rem.updatedTree, targetPathArray,
                                   rem.removedNode).list
    IN IF verdict \in {"self", "descendant"}
       THEN [stay EXCEPT !.error = verdict, !.nodeToMove = NoNode]
       ELSE IF verdict = "expandFirst"
       THEN [stay EXCEPT !.error = "expandFirst"]
       ELSE IF ~rem.removed
       THEN [stay EXCEPT !.error = "removeFailed", !.nodeToMove = NoNode]
       ELSE [treeData |-> finalTree, nodeToMove |-> NoNode,
             selectedNodeId |-> nodeToMove.id, error |-> "none",
             moved |-> TRUE]

\* handleSelectNode(nodeId, nodeIndex) for the row at index i, called from a
\* click (key "none") or from handleKeyDown;
\* for a selection last.arg is the id that was selected before
HandleSelectNodeFrom(i, key) ==
    /\ i \in 1..Len(flatNodes)
    /\ LET nodeId == flatNodes[i].id IN
       IF nodeToMove # NoNode
       THEN LET r == handleCompleteMove(nodeId) IN
            /\ budget.mut < limits.mut
            /\ treeData' = r.treeData
            /\ nodeToMove' = r.nodeToMove
            /\ selectedNodeId' = r.selectedNodeId
            /\ error' = r.error
            /\ topFetches' = EffectFetches(r.treeData)
            /\ last' = [Did("completeMove", nodeToMove.id, nodeId,
                            IF r.moved THEN "moved" ELSE r.error, 0, <<>>)
                           EXCEPT !.key = key]
            /\ budget' = [budget EXCEPT !.mut = @ + 1]
       ELSE LET newSelectedId == IF selectedNodeId = nodeId THEN NoId
                                 ELSE nodeId
            IN /\ selectedNodeId' = newSelectedId
               /\ error' = "none"
               /\ last' = [Did("select", nodeId, selectedNodeId, "none", 0,
                               <<newSelectedId>>) EXCEPT !.key = key]
               /\ UNCHANGED <<treeData, nodeToMove, topFetches, budget>>
    /\ UNCHANGED <<isLoadingInitial, openNodes, loadingChildren, checkedNodes,
                   calls, limits>>

\* a click on the row at index i
HandleSelectNode(i) == HandleSelectNodeFrom(i, "none")

\* handleStartMove: the Move button is enabled with a selection and no move
HandleStartMove ==
    /\ selectedNodeId # NoId
    /\ nodeToMove = NoNode
    /\ LET found == findNodeAndPath(treeData, selectedNodeId, <<>>) IN
       IF found.found
       THEN /\ nodeToMove' = found.nodeData
            /\ selectedNodeId' = NoId
            /\ error' = "none"
            /\ last' = Did("startMove", selectedNodeId, NoId, "none", 0, <<>>)
       ELSE /\ error' = "noSelectedData"
            /\ last' = Did("startMove", selectedNodeId, NoId, "none", 1, <<>>)
            /\ UNCHANGED <<nodeToMove, selectedNodeId>>
    /\ UNCHANGED <<treeData, isLoadingInitial, openNodes, loadingChildren,
                   checkedNodes, topFetches, calls, budget, limits>>

\* handleCancelMove: the Cancel Move button is rendered during a move
HandleCancelMoveFrom(key) ==
    /\ nodeToMove # NoNode
    /\ nodeToMove' = NoNode
    /\ error' = "none"
    /\ last' = [Did("cancelMove", nodeToMove.id, NoId, "none", 0, <<>>)
                    EXCEPT !.key = key]
    /\ UNCHANGED <<treeData, isLoadingInitial, openNodes, loadingChildren,
                   selectedNodeId, checkedNodes, topFetches, calls, budget, limits>>

\* the Cancel button
HandleCancelMove == HandleCancelMoveFrom("none")

\* ------------------------------------------------------------------ imperative handle

\* addNode that passes the parent's ancestors as the path, without the parent
addNodeParentLeftOut(newNodeData, parentId) ==
    LET parent == findNodeAndPath(treeData, parentId, <<>>)
        targetPath == IF parentId # NoId THEN parent.path ELSE <<>>
        r == addNodeAtPath(treeData, targetPath, newNodeData)
    IN IF parentId # NoId /\ ~parent.found
       THEN [tree |-> treeData, ret |-> "false", error |-> "parentNotFound"]
       ELSE IF parentId # NoId /\ ~parent.nodeData.children.arr
       THEN [tree |-> treeData, ret |-> "false", error |-> "parentNotLoaded"]
       ELSE IF r.changed
       THEN [tree |-> r.list, ret |-> "true", error |-> "none"]
       ELSE [tree |-> treeData, ret |-> "false", error |-> "none"]

\* addNode without the check that the parent's children are loaded
addNodeNoLoadedCheck(newNodeData, parentId) ==
    LET parent == findNodeAndPath(treeData, parentId, <<>>)
        targetPath == IF parentId # NoId THEN Append(parent.path, parentId)
                      ELSE <<>>
        r == addNodeAtPath(treeData, targetPath, newNodeData)
    IN IF parentId # NoId /\ ~parent.found
       THEN [tree |-> treeData, ret |-> "false", error |-> "parentNotFound"]
       ELSE IF r.changed
       THEN [tree |-> r.list, ret |-> "true", error |-> "none"]
       ELSE [tree |-> treeData, ret |-> "false", error |-> "none"]

\* addNode(newNodeData, parentId): [tree, ret, error]
addNode(newNodeData, parentId) ==
    LET parent == findNodeAndPath(treeData, parentId, <<>>)
        targetPath == IF parentId # NoId THEN Append(parent.path, parentId)
                      ELSE <<>>
        r == addNodeAtPath(treeData, targetPath, newNodeData)
    IN IF parentId # NoId /\ ~parent.found
       THEN [tree |-> treeData, ret |-> "false", error |-> "parentNotFound"]
       ELSE IF parentId # NoId /\ ~parent.nodeData.children.arr
       THEN [tree |-> treeData, ret |-> "false", error |-> "parentNotLoaded"]
       ELSE IF r.changed
       THEN [tree |-> r.list, ret |-> "true", error |-> "none"]
       ELSE [tree |-> treeData, ret |-> "false", error |-> "none"]

\* addNode(NewNodeData(id), parentId) through the handle
AddNode(id, parentId) ==
    /\ budget.mut < limits.mut
    /\ LET r == addNode(NewNodeData(id), parentId) IN
          /\ treeData' = r.tree
          /\ error' = r.error
          /\ last' = Did("addNode", id, parentId, r.ret,
                         IF r.error = "none" THEN 0 ELSE 1, <<>>)
    /\ budget' = [budget EXCEPT !.mut = @ + 1]
    /\ UNCHANGED limits
    /\ UNCHANGED <<isLoadingInitial, openNodes, loadingChildren, selectedNodeId,
                   nodeToMove, checkedNodes, topFetches, calls>>

\* removeNode(nodeId); last.arg tells that onCheckedNodesChange was called
\* (with the new checked set)
RemoveNode(nodeId) ==
    /\ budget.mut < limits.mut
    /\ LET r == findAndRemoveNode(treeData, nodeId) IN
       IF r.removed
       THEN /\ treeData' = r.updatedTree
            /\ topFetches' = EffectFetches(r.updatedTree)
            /\ isLoadingInitial' = EffectLoading(r.updatedTree)
            /\ selectedNodeId' = IF selectedNodeId = nodeId THEN NoId
                                 ELSE selectedNodeId
            /\ checkedNodes' = checkedNodes \ {nodeId}
            /\ calls' = Disturb(IdsOf(Arr(<<r.removedNode>>)))
            /\ error' = "none"
            /\ last' = Did("removeNode", nodeId,
                           IF nodeId \in checkedNodes THEN "notified" ELSE NoId,
                           "true", 0,
                           IF selectedNodeId = nodeId THEN <<NoId>> ELSE <<>>)
       ELSE /\ error' = "notFound"
            /\ last' = Did("removeNode", nodeId, NoId, "false", 1, <<>>)
            /\ UNCHANGED <<treeData, topFetches, isLoadingInitial,
                           selectedNodeId, checkedNodes, calls>>
    /\ budget' = [budget EXCEPT !.mut = @ + 1]
    /\ UNCHANGED limits
    /\ UNCHANGED <<openNodes, loadingChildren, nodeToMove>>

\* a click on the checkbox of the row at index i; last.arg tells that
\* onCheckedNodesChange was called, last.via whether the step before was a
\* click on the same checkbox, last.data holds the checked set before the
\* click and the one before that earlier click
HandleCheckboxChange(i) ==
    /\ budget.chk < limits.chk
    /\ i \in 1..Len(flatNodes)
    /\ LET clickedNodeId == flatNodes[i].id IN
       /\ checkedNodes' = IF Len(traverse(treeData)) = 0 THEN checkedNodes
                          ELSE handleCheckboxChange(treeData, checkedNodes,
                                                    clickedNodeId)
       /\ LET again == last.op = "checkbox" /\ last.id = clickedNodeId IN
          last' = [Did("checkbox", clickedNodeId, "notified", "none", 0, <<>>)
                      EXCEPT !.via = IF again THEN "again" ELSE "none",
                             !.data = <<checkedNodes,
                                        IF again THEN last.data[1]
                                        ELSE checkedNodes>>]
    /\ budget' = [budget EXCEPT !.chk = @ + 1]
    /\ UNCHANGED <<treeData, isLoadingInitial, error, openNodes,
                   loadingChildren, selectedNodeId, nodeToMove, topFetches,
                   calls, limits>>

\* setCheckedNodes(nodeIds) through the handle
SetCheckedNodes(nodeIds) ==
    /\ budget.chk < limits.chk
    /\ checkedNodes' = nodeIds
    /\ last' = [Did("setCheckedNodes", NoId, "notified", "none", 0, <<>>)
                   EXCEPT !.data = <<checkedNodes>>]
    /\ budget' = [budget EXCEPT !.chk = @ + 1]
    /\ UNCHANGED <<treeData, isLoadingInitial, error, openNodes,
                   loadingChildren, selectedNodeId, nodeToMove, topFetches,
                   calls, limits>>

\* updateNode(nodeId, updatedData) through the handle
UpdateNode(nodeId, updatedData) ==
    /\ budget.mut < limits.mut
    /\ LET r == updateNodeData(treeData, nodeId, restOfUpdates(updatedData)) IN
       IF r.success
       THEN /\ treeData' = r.updatedTree
            /\ error' = "none"
            /\ last' = [Did("updateNode", nodeId, NoId, "true", 0, <<>>)
                            EXCEPT !.data = <<updatedData>>]
       ELSE /\ error' = "notFound"
            /\ last' = [Did("updateNode", nodeId, NoId, "false", 1, <<>>)
                            EXCEPT !.data = <<updatedData>>]
            /\ UNCHANGED treeData
    /\ budget' = [budget EXCEPT !.mut = @ + 1]
    /\ UNCHANGED <<isLoadingInitial, openNodes, loadingChildren, selectedNodeId,
                   nodeToMove, checkedNodes, topFetches, calls, limits>>

\* selectNode that deselects an id that is selected already
SelectNodeTogglesOff(nodeId) ==
    /\ budget.sel < limits.sel
    /\ selectedNodeId' = IF selectedNodeId = nodeId THEN NoId ELSE nodeId
    /\ error' = "none"
    /\ last' = [Did("selectNode", nodeId, selectedNodeId, "none", 0,
                    <<IF selectedNodeId = nodeId THEN NoId ELSE nodeId>>)
                    EXCEPT !.via = "handle"]
    /\ budget' = [budget EXCEPT !.sel = @ + 1]
    /\ UNCHANGED <<treeData, isLoadingInitial, openNodes, loadingChildren,
                   nodeToMove, checkedNodes, topFetches, calls, limits>>

\* selectNode(nodeId) through the handle; nodeId may be null; last.arg is the
\* id that was selected before
SelectNode(nodeId) ==
    /\ budget.sel < limits.sel
    /\ selectedNodeId' = nodeId
    /\ error' = "none"
    /\ last' = [Did("selectNode", nodeId, selectedNodeId, "none", 0, <<nodeId>>)
                    EXCEPT !.via = "handle"]
    /\ budget' = [budget EXCEPT !.sel = @ + 1]
    /\ UNCHANGED <<treeData, isLoadingInitial, openNodes, loadingChildren,
                   nodeToMove, checkedNodes, topFetches, calls, limits>>

\* getNodeHierarchy without the node's own id at the end
getNodeHierarchyAncestorsOnly(nodes, nodeId) ==
    LET r == findNodeAndPath(nodes, nodeId, <<>>) IN
    IF r.found THEN [ret |-> "list", hierarchy |-> r.path]
    ELSE [ret |-> "null", hierarchy |-> <<>>]

\* the value of getNodeHierarchy(nodeId): ret "null" for null, else the list
getNodeHierarchy(nodes, nodeId) ==
    LET r == findNodeAndPath(nodes, nodeId, <<>>) IN
    IF r.found THEN [ret |-> "list", hierarchy |-> Append(r.path, nodeId)]
    ELSE [ret |-> "null", hierarchy |-> <<>>]

\* getNodeHierarchy(nodeId) through the handle; last.data is the list returned
GetNodeHierarchy(nodeId) ==
    /\ budget.sel < limits.sel
    /\ LET r == getNodeHierarchy(treeData, nodeId) IN
          last' = [Did("getNodeHierarchy", nodeId, NoId, r.ret, 0, <<>>)
                      EXCEPT !.data = r.hierarchy]
    /\ budget' = [budget EXCEPT !.sel = @ + 1]
    /\ UNCHANGED <<treeData, isLoadingInitial, error, openNodes,
                   loadingChildren, selectedNodeId, nodeToMove, checkedNodes,
                   topFetches, calls, limits>>

\* ------------------------------------------------------------------ keyboard

\* the keys handleKeyDown acts on
Keys == {"ArrowDown", "ArrowUp", "ArrowRight", "ArrowLeft", "Home", "End",
         "Enter", "Escape"}

\* flatNodes.findIndex(node => node.id === nodeId), counted from 1; 0 for -1
findIndex(flat, nodeId) ==
    LET hits == {i \in 1..Len(flat) : flat[i].id = nodeId}
    IN IF hits = {} THEN 0 ELSE CHOOSE i \in hits : \A k \in hits : i <= k

\* the backward scan of ArrowLeft that takes the first row it meets at a
\* smaller depth or the same
parentIndexAnyShallower(flat, currentSelectedIndex) ==
    LET hits == {i \in 1..(currentSelectedIndex - 1) :
                    flat[i].depth <= flat[currentSelectedIndex].depth}
    IN IF hits = {} THEN 0 ELSE CHOOSE i \in hits : \A k \in hits : i >= k

\* the backward scan of ArrowLeft: the nearest earlier row one level up, 0
\* when there is none
parentIndex(flat, currentSelectedIndex) ==
    LET hits == {i \in 1..(currentSelectedIndex - 1) :
                    flat[i].depth = flat[currentSelectedIndex].depth - 1}
    IN IF hits = {} THEN 0 ELSE CHOOSE i \in hits : \A k \in hits : i >= k

\* nextSelectIndex after the switch of handleKeyDown, counted from 1
nextSelectIndex(flat, currentSelectedIndex, key) ==
    LET currentNode == flat[currentSelectedIndex]
        n == Len(flat)
    IN CASE key = "ArrowDown" ->
                IF currentSelectedIndex + 1 < n THEN currentSelectedIndex + 1
                ELSE n
         [] key = "ArrowUp" ->
                IF currentSelectedIndex - 1 > 1 THEN currentSelectedIndex - 1
                ELSE 1
         [] key = "ArrowRight" ->
                IF currentNode.hasChildren /\ currentNode.isOpen
                   /\ currentSelectedIndex + 1 <= n
                   /\ flat[currentSelectedIndex + 1].depth > currentNode.depth
                THEN currentSelectedIndex + 1
                ELSE currentSelectedIndex
         [] key = "ArrowLeft" ->
                IF currentNode.depth > 0
                   /\ parentIndex(flat, currentSelectedIndex) # 0
                THEN parentIndex(flat, currentSelectedIndex)
                ELSE currentSelectedIndex
         [] key = "Home" -> 1
         [] key = "End" -> n
         [] OTHER -> currentSelectedIndex

\* a key on which handleKeyDown returns without calling a handler
KeyIgnored(key) ==
    /\ last' = [Did("keyDown", selectedNodeId, NoId, "none", 0, <<>>)
                    EXCEPT !.key = key]
    /\ UNCHANGED <<treeData, isLoadingInitial, error, openNodes,
                   loadingChildren, selectedNodeId, nodeToMove, checkedNodes,
                   topFetches, calls, budget, limits>>

\* what handleKeyDown does on key: the handler it calls (or "return") and the
\* index, counted from 1, of the row it calls it for
keyDownCall(flat, key) ==
    LET currentSelectedIndex == IF selectedNodeId # NoId
                                THEN findIndex(flat, selectedNodeId) ELSE 0
        currentNode == flat[currentSelectedIndex]
        next == nextSelectIndex(flat, currentSelectedIndex, key)
        return == [handler |-> "return", index |-> 0]
    IN IF Len(flat) = 0 THEN return
       ELSE IF currentSelectedIndex = 0
       THEN IF key \in {"ArrowDown", "ArrowUp"}
            THEN [handler |-> "handleSelectNode",
                  index |-> IF key = "ArrowDown" THEN 1 ELSE Len(flat)]
            ELSE return
       ELSE IF key = "Enter"
       THEN [handler |-> "handleSelectNode", index |-> currentSelectedIndex]
       ELSE IF key = "Escape"
       THEN IF nodeToMove # NoNode
            THEN [handler |-> "handleCancelMove", index |-> 0]
            ELSE return
       ELSE IF \/ key = "ArrowRight" /\ currentNode.hasChildren
                     /\ ~currentNode.isOpen
               \/ key = "ArrowLeft" /\ currentNode.isOpen
                     /\ currentNode.hasChildren
       THEN [handler |-> "toggleNode", index |-> currentSelectedIndex]
       ELSE IF next # currentSelectedIndex
       THEN [handler |-> "handleSelectNode", index |-> next]
       ELSE return

\* handleKeyDown(event) for event.key = key
HandleKeyDown(key) ==
    \E call \in {keyDownCall(flatNodes, key)} :
       \/ call.handler = "handleSelectNode"
             /\ HandleSelectNodeFrom(call.index, key)
       \/ call.handler = "toggleNode" /\ ToggleNodeFrom(call.index, key)
       \/ call.handler = "handleCancelMove" /\ HandleCancelMoveFrom(key)
       \/ call.handler = "return" /\ flatNodes # <<>> /\ KeyIgnored(key)

\* ------------------------------------------------------------------ specification

FetchStep ==
    \/ TopFetchResolve
    \/ TopFetchReject
    \/ \E c \in calls : ToggleFetchResolve(c)
    \/ \E c \in calls : ToggleFetchReject(c)

Next ==
    \/ FetchStep
    \/ \E i \in 1..Cardinality(AllIds) : ToggleNode(i)
    \/ \E id \in AllIds, recursive \in BOOLEAN : ExpandNode(id, recursive)
    \/ \E c \in calls, id \in AllIds, ok \in BOOLEAN : ExpandFetchSettle(c, id, ok)
    \/ \E id \in AllIds, recursive \in BOOLEAN : CollapseNode(id, recursive)
    \/ \E id \in AllIds : RemoveNode(id)

\* toggling, expanding and collapsing with their fetches, and removals
Spec == Init /\ [][Next]_vars

NextEdit ==
    \/ FetchStep
    \/ \E i \in 1..Cardinality(AllIds) : ToggleNode(i)
    \/ \E i \in 1..Cardinality(AllIds) : HandleSelectNode(i)
    \/ HandleStartMove
    \/ HandleCancelMove
    \/ \E id \in NewIds \ IdsOf(treeData), parentId \in AllIds \cup {NoId} :
          AddNode(id, parentId)
    \/ \E id \in AllIds : RemoveNode(id)

\* selecting, moving, adding and removing on a tree expanded through the rows;
\* the callers of addNode pass an id that is not in the tree
SpecEdit == InitEdit /\ [][NextEdit]_vars

NextSelect ==
    \/ FetchStep
    \/ \E i \in 1..Cardinality(AllIds) : ToggleNode(i)
    \/ \E i \in 1..Cardinality(AllIds) : HandleSelectNode(i)
    \/ HandleStartMove
    \/ HandleCancelMove
    \/ \E id \in AllIds \cup {NoId} : SelectNode(id)
    \/ \E id \in AllIds : RemoveNode(id)

\* selecting by click and through the handle, moving and removing
SpecSelect == InitSelect /\ [][NextSelect]_vars

NextCheck ==
    \/ FetchStep
    \/ \E i \in 1..Cardinality(AllIds) : ToggleNode(i)
    \/ \E i \in 1..Cardinality(AllIds) : HandleCheckboxChange(i)
    \/ \E nodeIds \in SUBSET AllIds : SetCheckedNodes(nodeIds)
    \/ \E id \in NewIds \ IdsOf(treeData), parentId \in AllIds \cup {NoId} :
          AddNode(id, parentId)
    \/ \E id \in AllIds : RemoveNode(id)

\* checkbox clicks and setCheckedNodes on a tree that is expanded through the
\* rows and edited with fresh ids
SpecCheck == InitCheck /\ [][NextCheck]_vars

NextRead ==
    \/ FetchStep
    \/ \E i \in 1..Cardinality(AllIds) : ToggleNode(i)
    \/ \E id \in NewIds \ IdsOf(treeData), parentId \in AllIds \cup {NoId} :
          AddNode(id, parentId)
    \/ \E id \in AllIds : GetNodeHierarchy(id)

\* getNodeHierarchy on a tree expanded through the rows and grown with fresh
\* ids
SpecRead == InitRead /\ [][NextRead]_vars

NextCollapse ==
    \/ TopFetchResolve
    \/ TopFetchReject
    \/ \E id \in AllIds, recursive \in BOOLEAN : ExpandNode(id, recursive)
    \/ \E c \in calls, id \in AllIds, ok \in BOOLEAN : ExpandFetchSettle(c, id, ok)
    \/ \E id \in AllIds, recursive \in BOOLEAN : CollapseNode(id, recursive)
    \/ \E id \in NewIds \ IdsOf(treeData), parentId \in AllIds \cup {NoId} :
          AddNode(id, parentId)

\* expanding and collapsing through the handle on a tree grown with fresh ids
SpecCollapse == InitCollapse /\ [][NextCollapse]_vars

NextFold ==
    \/ FetchStep
    \/ \E i \in 1..Cardinality(AllIds) : ToggleNode(i)
    \/ \E id \in AllIds, recursive \in BOOLEAN : CollapseNode(id, recursive)
    \/ \E i \in 1..Cardinality(AllIds) : HandleCheckboxChange(i)

\* opening rows, closing them by toggle and by collapseNode, and checking
SpecFold == InitFold /\ [][NextFold]_vars

NextMerge ==
    \/ FetchStep
    \/ \E i \in 1..Cardinality(AllIds) : ToggleNode(i)
    \/ \E id \in AllIds, recursive \in BOOLEAN : ExpandNode(id, recursive)
    \/ \E c \in calls, id \in AllIds, ok \in BOOLEAN : ExpandFetchSettle(c, id, ok)
    \/ \E id \in NewIds \ IdsOf(treeData), parentId \in AllIds \cup {NoId} :
          AddNode(id, parentId)
    \/ \E id \in AllIds : RemoveNode(id)
    \/ \E id \in AllIds, updatedData \in UpdateData : UpdateNode(id, updatedData)

\* child fetches issued by toggles and expandNode, with addNode, removeNode
\* and updateNode calls committed while they are in flight
SpecMerge == InitMerge /\ [][NextMerge]_vars

NextKeys ==
    \/ FetchStep
    \/ \E key \in Keys : HandleKeyDown(key)
    \/ HandleStartMove
    \/ \E id \in NewIds \ IdsOf(treeData), parentId \in AllIds \cup {NoId} :
          AddNode(id, parentId)

\* the tree driven from the keyboard, with the Move button and addNode calls
\* of fresh ids
SpecKeys == InitKeys /\ [][NextKeys]_vars

NextUpdate ==
    \/ TopFetchResolveFolder
    \/ TopFetchReject
    \/ \E c \in calls : ToggleFetchResolve(c)
    \/ \E c \in calls : ToggleFetchReject(c)
    \/ \E i \in 1..Cardinality(AllIds) : ToggleNode(i)
    \/ \E id \in NewIds \ IdsOf(treeData), parentId \in AllIds \cup {NoId} :
          AddNode(id, parentId)
    \/ \E id \in AllIds, updatedData \in UpdateData : UpdateNode(id, updatedData)

\* updateNode and addNode on a tree whose top level has an empty folder
SpecUpdate == InitUpdate /\ [][NextUpdate]_vars

NextReload ==
    \/ FetchStep
    \/ \E i \in 1..Cardinality(AllIds) : ToggleNode(i)
    \/ \E i \in 1..Cardinality(AllIds) : HandleCheckboxChange(i)
    \/ \E i \in 1..Cardinality(AllIds) : HandleSelectNode(i)
    \/ \E id \in AllIds : RemoveNode(id)

\* expanding, checking, selecting and removing, down to an empty top level
SpecReload == InitReload /\ [][NextReload]_vars

NextFixed ==
    \/ budget.chk = 0 /\ TopFetchResolve
    \/ TopFetchReject
    \/ budget.chk = 0 /\ \E c \in calls : ToggleFetchResolve(c)
    \/ \E c \in calls : ToggleFetchReject(c)
    \/ \E i \in 1..Cardinality(AllIds) : ToggleNode(i)
    \/ \E i \in 1..Cardinality(AllIds) : HandleCheckboxChange(i)
    \/ /\ budget.chk = 0
       /\ \E id \in NewIds \ IdsOf(treeData), parentId \in AllIds \cup {NoId} :
             AddNode(id, parentId)

\* checkbox clicks on a tree that neither a load nor addNode changes after
\* the first click
SpecFixed == InitFixed /\ [][NextFixed]_vars

NextApi ==
    \/ FetchStep
    \/ \E i \in 1..Cardinality(AllIds) : ToggleNode(i)
    \/ \E i \in 1..Cardinality(AllIds) : HandleSelectNode(i)
    \/ HandleStartMove
    \/ HandleCancelMove
    \/ \E id \in NewIds, parentId \in AllIds \cup {NoId} : AddNode(id, parentId)
    \/ \E id \in AllIds : RemoveNode(id)
    \/ \E id \in AllIds, updatedData \in UpdateData : UpdateNode(id, updatedData)

\* the commands of the handle with any arguments, on a tree expanded through
\* the rows
SpecApi == InitApi /\ [][NextApi]_vars


\* ------------------------------------------------------------------ reference notions

\* every node reachable through loaded children, in pre-order, with the ids
\* of its ancestors from the root down
RECURSIVE Walk(_, _)
Walk(nodes, ancestors) ==
    IF ~nodes.arr \/ Len(nodes.items) = 0 THEN <<>>
    ELSE LET first == nodes.items[1]
             rest == Arr(Tail(nodes.items))
         IN <<[node |-> first, ancestors |-> ancestors]>>
               \o Walk(first.children, Append(ancestors, first.id))
               \o Walk(rest, ancestors)

\* the rows a tree shows under an open set: the walk restricted to the nodes
\* whose ancestors are all open, as <<id, number of ancestors>>
ReferenceRows(nodes, openSet) ==
    LET Shown(e) == \A k \in 1..Len(e.ancestors) : e.ancestors[k] \in openSet
        shown == SelectSeq(Walk(nodes, <<>>), Shown)
    IN [i \in 1..Len(shown) |-> <<shown[i].node.id, Len(shown[i].ancestors)>>]

RowsOf(flat) == [i \in 1..Len(flat) |-> <<flat[i].id, flat[i].depth>>]

\* the shape of a tree: every node as <<id, number of ancestors>>, in pre-order
Shape(nodes) == ReferenceRows(nodes, IdsOf(nodes))

\* the ids of the nodes below the node id of the tree (none when absent)
DescendantIds(nodes, id) ==
    {e.node.id : e \in {w \in Range(Walk(nodes, <<>>)) : id \in Range(w.ancestors)}}

\* ------------------------------------------------------------------ claims

\* C1: for every reachable tree, every open set and the current loading set,
\* the rows of flattenTree are the reference pre-order traversal: exactly the
\* nodes whose ancestors are all open (and hence loaded), each directly
\* followed by its shown children in child order, at depth = number of
\* ancestors; with the empty open set they are the top-level nodes at depth 0.
C1_FlattenIsPreorder ==
    /\ \A o \in SUBSET AllIds :
          RowsOf(flattenTree(treeData, o, 0, loadingChildren))
              = ReferenceRows(treeData, o)
    /\ RowsOf(flattenTree(treeData, {}, 0, {}))
          = [i \in 1..Len(treeData.items) |-> <<treeData.items[i].id, 0>>]

\* a tree with rows at depth 1 below an open node and a loaded, non-empty node
\* whose children are hidden because it is closed
C1_Witness ==
    /\ \E i \in 1..Len(flatNodes) : flatNodes[i].depth = 1
    /\ \E i \in 1..Len(flatNodes) :
          /\ flatNodes[i].isLoaded /\ ~flatNodes[i].isOpen
          /\ DescendantIds(treeData, flatNodes[i].id) # {}


\* the node with this id, found by the walk (NoNode when absent)
NodeOf(nodes, id) ==
    LET hits == {e \in Range(Walk(nodes, <<>>)) : e.node.id = id}
    IN IF hits = {} THEN NoNode ELSE (CHOOSE e \in hits : TRUE).node


\* the last step completed a toggleNode or expandNode call whose fetch for
\* last.id resolved / rejected
FetchCallResolved ==
    /\ last.op = "fetchResolved"
    /\ last.via = "toggle" \/ last.arg = "done"

FetchCallRejected ==
    /\ last.op = "fetchRejected"
    /\ last.via = "toggle" \/ last.arg = "done"

\* the rows right after the row of id are the rows of list, one level deeper
RowsFollow(id, list) ==
    \A i \in 1..Len(flatNodes) :
        flatNodes[i].id = id =>
            /\ i + Len(list) <= Len(flatNodes)
            /\ \A k \in 1..Len(list) :
                  /\ flatNodes[i + k].id = list[k].id
                  /\ flatNodes[i + k].depth = flatNodes[i].depth + 1

\* C2: when the fetch of an expand (toggle-open or expandNode) of a node
\* resolves with list L while the node is in the tree, the node's children are
\* loaded and are L in order and the node is not loading; and unless it was
\* collapsed (or taken out of the tree) meanwhile it is open, so that the rows
\* of L follow its row one level deeper.
C2_ExpandAttachesAndOpens ==
    (FetchCallResolved /\ last.id \in IdsOf(treeData)) =>
        /\ NodeOf(treeData, last.id).children.arr
        /\ IdSeq(NodeOf(treeData, last.id).children.items) = IdSeq(last.data)
        /\ last.id \notin loadingChildren
        /\ ~last.disturbed =>
              /\ last.id \in openNodes
              /\ RowsFollow(last.id, last.data)

\* C3: when the fetch of an expand of id fails, then once the call has ended
\* the node is still unloaded, id is neither open nor loading, onError was
\* called once for it and no fetch for id is pending.
C3_FailedFetchRollsBack ==
    FetchCallRejected =>
        /\ last.id \in IdsOf(treeData) => ~NodeOf(treeData, last.id).children.arr
        /\ last.id \notin openNodes
        /\ last.id \notin loadingChildren
        /\ last.onError = 1
        /\ \A c \in calls : last.id \notin c.toFetch

\* the step is handleSelectNode(target) completing a move of nodeToMove
CompletesMove == last'.op = "completeMove"

MovedId == nodeToMove.id

TargetId == last'.arg

\* the target of the completing step is the moved node or below it
TargetInMovedSubtree ==
    TargetId = MovedId \/ TargetId \in DescendantIds(treeData, MovedId)

TargetUnloaded == ~NodeOf(treeData, TargetId).children.arr

\* the last child of the node id, NoId when it has none
LastChildId(nodes, id) ==
    LET n == NodeOf(nodes, id) IN
    IF n.children.arr /\ Len(n.children.items) > 0
    THEN n.children.items[Len(n.children.items)].id ELSE NoId

\* C4: completing a move onto the moved node or onto one of its descendants
\* is rejected and leaves the tree as it was.
C4_CyclicMoveRejected ==
    [][(CompletesMove /\ TargetInMovedSubtree) =>
          /\ treeData' = treeData
          /\ last'.ret \in {"self", "descendant"}]_vars

\* a move onto a proper descendant of the moved node was rejected
C4_Witness ==
    /\ last.op = "completeMove"
    /\ last.ret = "descendant"
    /\ last.arg \in DescendantIds(treeData, last.id)

\* C5: after a successful move of m onto target t, m is the last child of t.
C5_MovedIsLastChildOfTarget ==
    (last.op = "completeMove" /\ last.ret = "moved") =>
        LastChildId(treeData, last.arg) = last.id

\* C6: completing a move onto a target whose children are unloaded never
\* changes the tree; when the target is not the moved node nor below it (so
\* that the unloaded-target validation is the one that rejects), the error is
\* 'must be expanded first' and the machine stays in Moving(m).
C6_UnloadedTargetRejected ==
    [][(CompletesMove /\ TargetId \in IdsOf(treeData) /\ TargetUnloaded) =>
          /\ treeData' = treeData
          /\ ~TargetInMovedSubtree =>
                /\ error' = "expandFirst"
                /\ nodeToMove' = nodeToMove
                /\ selectedNodeId' = selectedNodeId]_vars

\* a move onto an unloaded node was rejected and the move is still in progress
C6_Witness ==
    /\ last.op = "completeMove"
    /\ last.ret = "expandFirst"
    /\ ~NodeOf(treeData, last.arg).children.arr
    /\ nodeToMove # NoNode /\ nodeToMove.id = last.id

\* C7 as stated: whatever makes the validation of select(target) fail in
\* Moving(m), the state stays Moving(m) and an error is surfaced.
C7_FailedMoveStaysMoving ==
    (last.op = "completeMove"
        /\ last.ret \in {"self", "descendant", "expandFirst"}) =>
        /\ nodeToMove # NoNode /\ nodeToMove.id = last.id
        /\ error # "none"

\* C7 amended: a select(target) in Moving(m) whose validation fails always
\* surfaces an error and leaves the tree as it was; the state stays Moving(m)
\* when the failure is the unloaded target, and the move ends (no node is
\* being moved any more, the selection is left as it was) when the target is m
\* or a descendant of m.
C7_FailedMoveSurfacesError ==
    [][(CompletesMove /\ TargetId \in IdsOf(treeData)
          /\ (TargetInMovedSubtree \/ TargetUnloaded)) =>
          /\ error' # "none"
          /\ treeData' = treeData
          /\ IF TargetInMovedSubtree
             THEN nodeToMove' = NoNode /\ selectedNodeId' = selectedNodeId
             ELSE nodeToMove' = nodeToMove]_vars

\* a move onto the moved node itself was rejected with an error and ended
C7_Witness ==
    /\ last.op = "completeMove"
    /\ last.arg = last.id
    /\ error = "self"
    /\ nodeToMove = NoNode

\* the step is removeNode(RemovedId)
Removes == last'.op = "removeNode"

RemovedId == last'.id

\* C8: removeNode(id) returns true iff id is in the tree; then the new tree
\* is the old one without id and the nodes below it, every other node at its
\* place and depth in the same order; when id is not found it returns false,
\* calls onError and leaves tree, selection and checked set as they were.
C8_RemoveNode ==
    [][Removes =>
          /\ last'.ret = "true" <=> RemovedId \in IdsOf(treeData)
          /\ last'.ret = "true" =>
                LET gone == {RemovedId} \cup DescendantIds(treeData, RemovedId)
                    Stays(row) == row[1] \notin gone
                IN Shape(treeData') = SelectSeq(Shape(treeData), Stays)
          /\ last'.ret = "false" =>
                /\ last'.onError = 1
                /\ treeData' = treeData
                /\ selectedNodeId' = selectedNodeId
                /\ checkedNodes' = checkedNodes]_vars

\* a node with a following sibling was removed and the sibling is still there
C8_Witness ==
    /\ last.op = "removeNode"
    /\ last.ret = "true"
    /\ last.id = "A1"
    /\ "A2" \in IdsOf(treeData)

\* the step is addNode(NewNodeData(AddedId), ParentId)
Adds == last'.op = "addNode"

AddedId == last'.id

ParentId == last'.arg

\* C9: addNode under a parent that is in the tree with loaded children
\* returns true and appends the node to that parent's children, which are
\* otherwise as before; with no parent it appends to the top-level nodes.
C9_AddNodeAppends ==
    [][Adds =>
          /\ (ParentId # NoId /\ NodeOf(treeData, ParentId).children.arr) =>
                /\ last'.ret = "true"
                /\ NodeOf(treeData', ParentId).children.items
                     = Append(NodeOf(treeData, ParentId).children.items,
                              TreeNode(NewNodeData(AddedId)))
          /\ ParentId = NoId =>
                /\ last'.ret = "true"
                /\ treeData'.arr
                /\ treeData'.items = Append(treeData.items,
                                            TreeNode(NewNodeData(AddedId)))]_vars

\* a node was added behind the two fetched children of its parent
C9_Witness ==
    /\ last.op = "addNode"
    /\ last.ret = "true"
    /\ last.arg # NoId
    /\ IdSeq(NodeOf(treeData, last.arg).children.items) = <<"A1", "A2", last.id>>

\* C10: addNode under a parent that is not in the tree, or whose children are
\* unloaded, returns false, calls onError and leaves the tree as it was.
C10_AddNodeRejected ==
    [][(Adds /\ ParentId # NoId /\ ~NodeOf(treeData, ParentId).children.arr) =>
          /\ last'.ret = "false"
          /\ last'.onError = 1
          /\ treeData' = treeData]_vars

\* addNode under an unloaded node of the tree returned false
C10_Witness ==
    /\ last.op = "addNode"
    /\ last.ret = "false"
    /\ last.arg \in IdsOf(treeData)
    /\ ~NodeOf(treeData, last.arg).children.arr

\* ------------------------------------------------------------------ loaded children

\* the ids of the nodes of the tree whose children are loaded
LoadedIds(nodes) == {n.id : n \in {m \in Range(traverse(nodes)) : m.children.arr}}

\* C11: a node whose children are loaded keeps loaded children (empty or not)
\* through every step, as long as it stays in the tree.
C11_LoadedStaysLoaded ==
    [][\A id \in LoadedIds(treeData) :
          id \in IdsOf(treeData') => id \in LoadedIds(treeData')]_vars

\* ------------------------------------------------------------------ unique ids

\* C12: no two nodes of the tree have the same id.
C12_IdsUnique ==
    Len(traverse(treeData)) = Cardinality(IdsOf(treeData))

\* ------------------------------------------------------------------ structural sharing

\* the tree with every object marked as existing before the call at hand
RECURSIVE Existing(_)
Existing(nodes) ==
    IF ~nodes.arr THEN nodes
    ELSE Arr([i \in 1..Len(nodes.items) |->
                 [nodes.items[i] EXCEPT !.obj = "existing",
                                        !.children = Existing(@)]])

\* the objects of the result of a mutation at x, applied to the tree old,
\* that the mutation allocated although they are neither x nor above x (in
\* old or in result) nor, when below is true, below x
AllocatedOffPath(result, old, x, below) ==
    {y \in Range(traverse(result)) :
        /\ y.obj = "allocated"
        /\ y.id # x
        /\ x \notin IdsOf(y.children)
        /\ x \notin IdsOf(NodeOf(old, y.id).children)
        /\ ~(below /\ y.id \in IdsOf(NodeOf(result, x).children))}

\* result is the tree the step arrives at, and it shares with old every
\* object off the path to x
Shares(result, old, x, below) ==
    /\ Existing(result) = Existing(treeData')
    /\ AllocatedOffPath(result, old, x, below) = {}

Updates == last'.op = "updateNode"

UpdatedId == last'.id

AncestorIds(nodes, id) ==
    UNION {Range(e.ancestors) :
              e \in {w \in Range(Walk(nodes, <<>>)) : w.node.id = id}}

\* the ids of the loaded children of the node id of the tree
ChildIds(nodes, id) == Range(IdSeq(NodeOf(nodes, id).children.items))

\* after is before with n and the nodes below n set to target, every node
\* above n in the set iff all of its children are, and all else as in before
Cascaded(nodes, before, after, n, target) ==
    LET below == {n} \cup DescendantIds(nodes, n)
        above == AncestorIds(nodes, n)
    IN /\ \A id \in below : (id \in after) = target
       /\ \A a \in above : (a \in after) = (ChildIds(nodes, a) \subseteq after)
       /\ \A id \in (AllIds \cup before \cup after) \ (below \cup above) :
             (id \in after) = (id \in before)

\* in the set checked, the nodes below n are as n is and every node above n
\* is in the set iff all of its children are
Settled(nodes, checked, n) ==
    /\ \A id \in DescendantIds(nodes, n) : (id \in checked) = (n \in checked)
    /\ \A a \in AncestorIds(nodes, n) :
          (a \in checked) = (ChildIds(nodes, a) \subseteq checked)

\* the last two steps were clicks on the checkbox of the same row
ToggledTwice == last.op = "checkbox" /\ last.via = "again"

\* C14 as stated: two clicks in a row on the checkbox of a node give back the
\* checked set there was before the first.
C14_TwiceRestores ==
    ToggledTwice => checkedNodes = last.data[2]

\* C14 amended: two clicks in a row on the checkbox of n give n and the nodes
\* below n the membership n had before, every node above n the membership
\* "all of its children are in the set", and every other id the membership
\* it had; this is the set before the first click when in that set the nodes
\* below n were as n and the nodes above n were in it iff all their children
\* were.
C14_TwiceSettles ==
    ToggledTwice =>
        /\ Cascaded(treeData, last.data[2], checkedNodes, last.id,
                    last.id \in last.data[2])
        /\ Settled(treeData, last.data[2], last.id) =>
              checkedNodes = last.data[2]

\* the second click on a node under a parent gave back a set with members
C14_Witness ==
    /\ ToggledTwice
    /\ AncestorIds(treeData, last.id) # {}
    /\ checkedNodes = last.data[2]
    /\ checkedNodes # {}
    /\ last.data[1] # checkedNodes

\* C15: every shown node with loaded, non-empty children is drawn as
\* indeterminate iff some but not all of its children are in the checked set.
C15_IndeterminateIffSomeNotAll ==
    \A i \in 1..Len(flatNodes) :
        LET children == ChildIds(treeData, flatNodes[i].id)
            some == children \cap checkedNodes
        IN (NodeOf(treeData, flatNodes[i].id).children.arr /\ children # {}) =>
              (isIndeterminate(treeData, checkedNodes, flatNodes[i])
                 <=> (some # {} /\ some # children))

Checks == last'.op = "checkbox"

\* C16: a click on the checkbox of n, with target = n is not in the checked
\* set, gives n and every node below n through loaded children the
\* membership target, then every node above n the membership "all of its
\* children are in the set", and leaves every other id as it was.
C16_ToggleCascades ==
    [][Checks => Cascaded(treeData, checkedNodes, checkedNodes', last'.id,
                          last'.id \notin checkedNodes)]_vars

\* the scenario of the claim: from {A, A1, A2}, reached by a click on A, a
\* click on A1 gave {A2}
C16_Witness ==
    /\ last.op = "checkbox"
    /\ last.id = "A1"
    /\ last.data[1] = {"A", "A1", "A2"}
    /\ checkedNodes = {"A2"}

\* ------------------------------------------------------------------ selection

\* the step is a selection of SelectedArg, by a click on its row or by
\* selectNode through the handle
ClickSelects == last'.op = "select"

HandleSelects == last'.op = "selectNode"

SelectedArg == last'.id

\* C17 as stated: outside a move, select(id) leads to Selected(id) and
\* notifies onNodeSelect with id, unless id is selected already: then it leads
\* to NoSelection and notifies onNodeSelect with null.
C17_SelectTogglesOff ==
    [][((ClickSelects \/ HandleSelects) /\ SelectedArg # NoId
          /\ nodeToMove = NoNode) =>
          IF selectedNodeId = SelectedArg
          THEN selectedNodeId' = NoId /\ last'.onNodeSelect = <<NoId>>
          ELSE selectedNodeId' = SelectedArg
               /\ last'.onNodeSelect = <<SelectedArg>>]_vars

\* C17 amended: outside a move, a click on the row of id leads to
\* Selected(id) and notifies onNodeSelect with id, unless id is selected
\* already: then it leads to NoSelection and notifies with null.  selectNode(id)
\* through the handle always leads to Selected(id) and notifies with id, also
\* when id is selected already; selectNode(null) leads to NoSelection and
\* notifies with null.
C17_ClickTogglesHandleSets ==
    [][/\ (ClickSelects /\ nodeToMove = NoNode) =>
             IF selectedNodeId = SelectedArg
             THEN selectedNodeId' = NoId /\ last'.onNodeSelect = <<NoId>>
             ELSE selectedNodeId' = SelectedArg
                  /\ last'.onNodeSelect = <<SelectedArg>>
       /\ HandleSelects =>
             /\ selectedNodeId' = SelectedArg
             /\ last'.onNodeSelect = <<SelectedArg>>]_vars

\* selectNode was called outside a move with the id that was selected, and
\* the id is still selected
C17_Witness ==
    /\ last.op = "selectNode"
    /\ last.id # NoId
    /\ last.arg = last.id
    /\ nodeToMove = NoNode
    /\ selectedNodeId = last.id

\* C18: no node is selected while a move is in progress; startMove from
\* Selected(id) leads to Moving(id) with no node selected; cancelMove leads
\* to NoSelection.
C18_MoveExcludesSelection ==
    [][/\ nodeToMove' # NoNode => selectedNodeId' = NoId
       /\ (last'.op = "startMove" /\ last'.onError = 0) =>
             /\ selectedNodeId # NoId /\ nodeToMove = NoNode
             /\ nodeToMove'.id = selectedNodeId /\ selectedNodeId' = NoId
       /\ last'.op = "cancelMove" =>
             nodeToMove' = NoNode /\ selectedNodeId' = NoId]_vars

\* C19: a removeNode that takes the selected node out of the tree, itself or
\* with an ancestor, leaves no node selected and notifies onNodeSelect with
\* null exactly once; a selected id is always the id of a node of the tree.
C19_RemovalDeselects ==
    [][/\ (Removes /\ last'.ret = "true" /\ selectedNodeId # NoId
            /\ selectedNodeId \in {RemovedId} \cup DescendantIds(treeData, RemovedId)) =>
             selectedNodeId' = NoId /\ last'.onNodeSelect = <<NoId>>
       /\ selectedNodeId' # NoId => selectedNodeId' \in IdsOf(treeData')]_vars

\* ------------------------------------------------------------------ updateNode

\* the tree without the fields updateNode may change
RECURSIVE Skeleton(_)
Skeleton(nodes) ==
    IF ~nodes.arr THEN nodes
    ELSE Arr([i \in 1..Len(nodes.items) |->
                 [id |-> nodes.items[i].id,
                  children |-> Skeleton(nodes.items[i].children)]])

\* C20: updateNode(id, partial) returns true iff id is in the tree; then
\* every node keeps its id, its place and its children list (loaded or not),
\* and the children of the updated node are the nodes they were, whatever
\* partial holds; when id is not in the tree it returns false, calls onError
\* and leaves the tree as it was.
C20_UpdateKeepsIdAndChildren ==
    [][Updates =>
          /\ last'.ret = "true" <=> UpdatedId \in IdsOf(treeData)
          /\ last'.ret = "true" =>
                /\ Skeleton(treeData') = Skeleton(treeData)
                /\ NodeOf(treeData', UpdatedId).children
                      = NodeOf(treeData, UpdatedId).children
          /\ last'.ret = "false" =>
                last'.onError = 1 /\ treeData' = treeData]_vars

\* a node with loaded children was updated with data that names children
C20_Witness ==
    /\ last.op = "updateNode"
    /\ last.ret = "true"
    /\ "children" \in last.data[1].keys
    /\ NodeOf(treeData, last.id).children.arr
    /\ Len(NodeOf(treeData, last.id).children.items) > 0
\* ------------------------------------------------------------------ hierarchy

\* the last step was getNodeHierarchy(last.id)
GetsHierarchy == last.op = "getNodeHierarchy"

\* the ancestors of the node id from the root down, as the reference walk
\* has them
AncestorsOf(nodes, id) ==
    (CHOOSE e \in Range(Walk(nodes, <<>>)) : e.node.id = id).ancestors

\* C21: getNodeHierarchy(id) on a tree with unique ids returns, when id is in
\* the tree, the ids of its ancestors from the root down followed by id
\* itself, and null when id is not in the tree; it changes nothing.
C21_HierarchyIsAncestorsThenId ==
    [][GetsHierarchy' =>
          /\ IF last'.id \in IdsOf(treeData)
             THEN /\ last'.ret = "list"
                  /\ last'.data = Append(AncestorsOf(treeData, last'.id),
                                         last'.id)
             ELSE last'.ret = "null"
          /\ UNCHANGED <<treeData, isLoadingInitial, error, openNodes,
                         loadingChildren, selectedNodeId, nodeToMove,
                         checkedNodes, topFetches, calls>>]_vars

\* a node two levels down was asked for, and a node that is not in the tree
C21_Witness == GetsHierarchy /\ Len(last.data) = 3

C21_WitnessAbsent ==
    GetsHierarchy /\ last.ret = "null" /\ treeData.arr

\* ------------------------------------------------------------------ collapsing

\* the last step was collapseNode(last.id, recursive)
Collapses(recursive) ==
    /\ last.op = "collapseNode"
    /\ last.arg = IF recursive THEN "recursive" ELSE "single"

\* C22: collapseNode(id, true) removes from the open set, in one step, id and
\* every descendant of id reachable through loaded children, and nothing
\* else; collapseNode(id, false) removes only id.
C22_CollapseClosesSubtree ==
    [][/\ Collapses(TRUE)' =>
             openNodes' = openNodes \
                             ({last'.id} \cup DescendantIds(treeData, last'.id))
       /\ Collapses(FALSE)' => openNodes' = openNodes \ {last'.id}]_vars

\* a recursive collapse closed an open node two levels below its argument
C22_Witness ==
    /\ Collapses(TRUE)
    /\ \E d \in DescendantIds(treeData, last.id) \cap last.data[1] :
          /\ d \notin ChildIds(treeData, last.id)
          /\ d \notin openNodes

\* a recursive collapse closed an open descendant and left a node outside the
\* subtree open
C22_WitnessOthersStay ==
    /\ Collapses(TRUE)
    /\ DescendantIds(treeData, last.id) \cap last.data[1] # {}
    /\ openNodes # {}

\* the last step closed rows: collapseNode or a toggle of an open row
Closes == last.op \in {"collapseNode", "toggleClose"}

\* C23: collapseNode (recursive or not) and the toggle of an open row change
\* neither the tree nor the loading set nor the checked set nor the
\* selection; the open set can only shrink.
C23_CollapseOnlyShrinksOpenSet ==
    [][Closes' =>
          /\ UNCHANGED <<treeData, loadingChildren, checkedNodes,
                         selectedNodeId>>
          /\ openNodes' \subseteq openNodes]_vars

\* a collapseNode call closed a loaded node while a fetch is in flight, a
\* node is checked and one is selected
C23_Witness ==
    /\ last.op = "collapseNode"
    /\ last.id \in last.data[1] \cap LoadedIds(treeData)
    /\ loadingChildren # {}
    /\ checkedNodes # {}
    /\ selectedNodeId # NoId

\* the same for the toggle of an open row
C23_WitnessToggle ==
    /\ last.op = "toggleClose"
    /\ last.id \in LoadedIds(treeData)
    /\ loadingChildren # {}
    /\ checkedNodes # {}

\* ------------------------------------------------------------------ child fetches

\* the number of fetches for id that have been issued and have not settled
FlightCount(cs, id) ==
    Cardinality({c \in cs : id \in c.toFetch /\ c.results[id] = "pending"})

\* the ids with a child fetch in flight
InFlight(cs) == {id \in AllIds : FlightCount(cs, id) > 0}

\* the ids the last step issued a child fetch for
Issued ==
    IF last.op = "toggleOpenFetch" THEN {last.id}
    ELSE IF last.op = "expandNode" THEN Range(last.data) ELSE {}

\* the last step was expandNode(last.id, recursive)
Expands(recursive) ==
    /\ last.op = "expandNode"
    /\ last.arg = IF recursive THEN "recursive" ELSE "single"

\* C24: a child fetch is issued for id only when id is in the tree, unloaded,
\* declared to have children and not in the loading set; no id ever has two
\* fetches in flight; expandNode on an open and loaded node issues no fetch
\* for it and closes nothing, and without the recursive flag it issues no
\* fetch at all and leaves the open set as it was.
C24_FetchIssuedOnce ==
    [][/\ \A id \in Issued' :
             /\ id \in IdsOf(treeData) \ LoadedIds(treeData)
             /\ NodeOf(treeData, id).hasChildren
             /\ id \notin loadingChildren
             /\ id \notin InFlight(calls)
       /\ InFlight(calls') \ InFlight(calls) \subseteq Issued'
       /\ \A id \in AllIds : FlightCount(calls', id) <= 1
       /\ \A recursive \in BOOLEAN :
             (Expands(recursive)'
              /\ last'.id \in openNodes \cap LoadedIds(treeData)) =>
                /\ last'.id \notin Issued'
                /\ openNodes \subseteq openNodes'
                /\ ~recursive => (Issued' = {} /\ calls' = calls
                                  /\ openNodes' = openNodes)]_vars

\* expandNode was called on a node whose fetch, issued by a toggle, is in
\* flight, and issued no fetch
C24_Witness ==
    /\ last.op = "expandNode"
    /\ last.id \in InFlight(calls)
    /\ Issued = {}
    /\ \E c \in calls : c.kind = "toggle" /\ c.root = last.id

\* expandNode without the recursive flag was called on an open loaded node
C24_WitnessOpen ==
    /\ Expands(FALSE)
    /\ last.id \in openNodes \cap LoadedIds(treeData)
    /\ NodeOf(treeData, last.id).children.items # <<>>
    /\ calls = {}

\* ------------------------------------------------------------------ loading flags

\* the ids fetched by the calls that have not run to their end
Owned(cs) == UNION {c.toFetch : c \in cs}

\* C25 as stated: an id is in the loading set iff a child fetch for it is in
\* flight, the flag being released when that fetch settles.
C25_LoadingIffInFlight == loadingChildren = InFlight(calls)

\* C25: an id is in the loading set iff it is fetched by a toggleNode or
\* expandNode call that has not run to its end: the flag is set when the
\* fetch is issued and released once, when the call ends, whether the fetch
\* succeeded or failed; in a fan-out expandNode that is when the last of the
\* call's fetches settles.
C25_LoadingIffCallRunning == loadingChildren = Owned(calls)

\* a fetch of a fan-out has settled, its sibling's has not, and its id is
\* still in the loading set
C25_Witness ==
    \E c \in calls : \E id \in c.toFetch \cap loadingChildren :
        c.results[id] # "pending"

\* ------------------------------------------------------------------ merging results

\* the call that the step to the next state runs to its end, as a set (empty
\* when the step ends no call)
Ending ==
    {c \in calls :
        /\ last'.op \in {"fetchResolved", "fetchRejected"}
        /\ c.kind = last'.via
        /\ last'.id \in c.toFetch /\ c.results[last'.id] = "pending"
        /\ \A k \in c.toFetch \ {last'.id} : c.results[k] # "pending"}

\* the ids whose fetch of call c resolved, the step to the next state included
Fetched(c) ==
    {k \in c.toFetch :
        \/ c.results[k] = "ok"
        \/ k = last'.id /\ last'.op = "fetchResolved"}

\* a tree without the children lists of the nodes in ids, and without what
\* attaching children sets: the declared hasChildren of those nodes and the
\* identity of the objects
RECURSIVE Pruned(_, _)
Pruned(nodes, ids) ==
    IF ~nodes.arr THEN nodes
    ELSE Arr([i \in 1..Len(nodes.items) |->
                 LET n == nodes.items[i] IN
                 IF n.id \in ids THEN [id |-> n.id, name |-> n.name]
                 ELSE [id |-> n.id, name |-> n.name,
                       hasChildren |-> n.hasChildren,
                       children |-> Pruned(n.children, ids)]])

\* the children list a fetch for id attaches
FetchedChildren(id) ==
    Arr([i \in 1..Len(ChildrenData(id)) |-> TreeNode(ChildrenData(id)[i])])

\* C26: when a call ends, the results of its fetches are attached to the tree
\* of that moment: every fetched node that is in the tree has the fetched
\* children, and all the rest of the tree, with whatever other fetches and
\* addNode, removeNode and updateNode calls made of it while the fetch was
\* in flight, is as it was; when no fetched node is in the tree any more the
\* tree is unchanged.
C26_ResultAppliedToCurrentTree ==
    [][\A c \in Ending :
          LET ids == Fetched(c) \cap IdsOf(treeData) IN
          /\ \A id \in ids :
                NodeOf(treeData', id).children = FetchedChildren(id)
          /\ Pruned(treeData', ids) = Pruned(treeData, ids)
          /\ ids = {} => treeData' = treeData]_vars

\* a fetch resolved and its children were attached beside a node that was
\* added while it was in flight
C26_Witness ==
    /\ FetchCallResolved
    /\ last.closure.arr
    /\ NodeOf(treeData, last.id).children.arr
    /\ \E n \in NewIds : n \in IdsOf(treeData) \ IdsOf(last.closure)

\* a fetch resolved after the fetch of a sibling, issued later, had resolved
C26_WitnessSibling ==
    /\ FetchCallResolved
    /\ last.closure.arr
    /\ NodeOf(treeData, last.id).children.arr
    /\ \E b \in LoadedIds(treeData) \ (LoadedIds(last.closure) \cup {last.id}) :
          b \in IdsOf(last.closure)

\* the result of a fetch arrived for a node that had been removed
C26_WitnessRemoved ==
    /\ FetchCallResolved
    /\ last.closure.arr /\ treeData.arr
    /\ last.id \notin IdsOf(treeData)

\* ------------------------------------------------------------------ recursive expansion

\* C27: when a recursive expandNode(id) call ends with all of its fetches
\* resolved, and nothing it opened or fetched was closed or removed
\* meanwhile, every loaded node among id and its descendants is open and
\* none of them is declared to have children and unloaded: the children
\* fetched by the call are expanded like the ones loaded before it.
C27_RecursiveExpandsFetchedChildren ==
    [][\A c \in Ending :
          (/\ c.kind = "expand" /\ c.recursive /\ ~c.disturbed
           /\ Fetched(c) = c.toFetch
           /\ c.root \in IdsOf(treeData')) =>
             \A d \in {c.root} \cup DescendantIds(treeData', c.root) :
                /\ d \in LoadedIds(treeData') => d \in openNodes'
                /\ d \in LoadedIds(treeData')
                      \/ ~NodeOf(treeData', d).hasChildren]_vars

\* C28: in an expandNode call with several fetches, every failed fetch is
\* reported through onError once, when it fails; when the call ends every
\* resolved result is attached to its node if that is in the tree, the nodes
\* whose fetch failed are as they were, nothing is taken out of the open
\* set, and the promise of expandNode resolves.
C28_PartialFailureKeepsSuccesses ==
    [][/\ (last'.via = "expand" /\ last' # last) =>
             last'.onError = IF last'.op = "fetchRejected" THEN 1 ELSE 0
       /\ \A c \in Ending :
             c.kind = "expand" =>
                /\ \A id \in Fetched(c) \cap IdsOf(treeData) :
                      NodeOf(treeData', id).children = FetchedChildren(id)
                /\ \A id \in (c.toFetch \ Fetched(c)) \cap IdsOf(treeData) :
                      NodeOf(treeData', id) = NodeOf(treeData, id)
                /\ openNodes' = openNodes
                /\ last'.ret = "resolved"]_vars

\* a call with two fetches ended: the first failed, the second had resolved
\* and its node is loaded and open, and so is the node whose fetch failed
C28_Witness ==
    /\ FetchCallRejected /\ last.via = "expand"
    /\ last.id \in (IdsOf(treeData) \ LoadedIds(treeData)) \cap openNodes
    /\ \E b \in (LoadedIds(treeData) \ LoadedIds(last.closure)) \cap openNodes :
          /\ b # last.id
          /\ \E p \in IdsOf(treeData) : {b, last.id} \subseteq ChildIds(treeData, p)

\* ------------------------------------------------------------------ failures of commands

\* the last step was a command that failed: addNode, removeNode or updateNode
\* returned false, getNodeHierarchy returned null, or a move was rejected
\* for its target
CommandFailed ==
    \/ last.op \in {"addNode", "removeNode", "updateNode"} /\ last.ret = "false"
    \/ last.op = "getNodeHierarchy" /\ last.ret = "null"
    \/ last.op = "completeMove"
          /\ last.ret \in {"self", "descendant", "expandFirst"}

\* C29: a command that fails for a validation or because a node is not found
\* returns false or null and delivers a message through onError.
C29_FailureReportedThroughOnError ==
    [][/\ CommandFailed' => (last'.onError = 1 /\ error' # "none")
       /\ (last'.op \in {"removeNode", "updateNode", "getNodeHierarchy"}
           /\ last'.id \notin IdsOf(treeData)) => CommandFailed'
       /\ (last'.op = "addNode" /\ last'.arg # NoId
           /\ last'.arg \notin LoadedIds(treeData)) => CommandFailed'
       /\ (last'.op = "completeMove"
           /\ last'.arg \in {nodeToMove.id}
                              \cup DescendantIds(treeData, nodeToMove.id)
                              \cup (IdsOf(treeData) \ LoadedIds(treeData))) =>
             CommandFailed']_vars

\* ------------------------------------------------------------------ fan-out

\* C30 as stated: in an expandNode call with several fetches, a node whose
\* fetch has resolved is loaded in the tree even while the fetch of a
\* sibling is pending.
C30_MergedAsTheyArrive ==
    \A c \in calls :
        c.kind = "expand" =>
           \A id \in c.toFetch \cap IdsOf(treeData) :
              c.results[id] = "ok" => id \in LoadedIds(treeData)

\* C30: the results of an expandNode call with several fetches are merged
\* into the tree together, in one update made when the last of its fetches
\* has settled: until then a node whose fetch has resolved stays unloaded
\* while a sibling's fetch is pending, and at that moment every resolved
\* result is attached.
C30_MergedWhenAllSettled ==
    [][/\ \A c \in calls' :
             c.kind = "expand" =>
                \A id \in c.toFetch \cap IdsOf(treeData') :
                   id \notin LoadedIds(treeData')
       /\ (last'.via = "expand" /\ last'.arg = "waiting" /\ last' # last) =>
             treeData' = treeData
       /\ \A c \in Ending :
             c.kind = "expand" =>
                \A id \in Fetched(c) \cap IdsOf(treeData) :
                   NodeOf(treeData', id).children = FetchedChildren(id)]_vars

\* the fetch of a node has resolved, the fetch of its sibling is pending, and
\* the node is in the tree, unloaded
C30_Witness ==
    \E c \in calls : \E id, sib \in c.toFetch :
        /\ c.kind = "expand"
        /\ c.results[id] = "ok" /\ c.results[sib] = "pending"
        /\ id \in IdsOf(treeData) \ LoadedIds(treeData)

\* ------------------------------------------------------------------ rollback

\* C31: when the fetch started by toggling a node open fails, exactly that
\* node leaves the open set: every other id is open after the failure iff
\* it was open just before it, whatever was opened or closed while the
\* fetch was in flight.
C31_RollbackRemovesOnlyThatNode ==
    [][(last'.op = "fetchRejected" /\ last'.via = "toggle" /\ last' # last) =>
          openNodes' = openNodes \ {last'.id}]_vars

\* ------------------------------------------------------------------ keyboard navigation

\* the keys of directional navigation
NavKeys == {"ArrowDown", "ArrowUp", "ArrowRight", "ArrowLeft", "Home", "End"}

\* the last step was a key of directional navigation that chose a row:
\* handleKeyDown called handleSelectNode for it
NavChose(key) ==
    /\ last.key = key
    /\ last.op \in {"select", "completeMove"}

\* the id of the row the last step called handleSelectNode for
ChosenId == IF last.op = "select" THEN last.id ELSE last.arg

\* the index of the selected row among the rows shown, 0 when there is none
SelectedRow ==
    IF \E i \in 1..Len(flatNodes) : flatNodes[i].id = selectedNodeId
    THEN CHOOSE i \in 1..Len(flatNodes) : flatNodes[i].id = selectedNodeId
    ELSE 0

\* the id of the parent of the node id in the tree (for a node below the top)
ParentOf(nodes, id) ==
    LET a == AncestorsOf(nodes, id) IN a[Len(a)]

\* C32: on a tree with unique ids, the parent key pressed on a selected row at
\* depth > 0 chooses the row of the actual parent of that node, and the
\* first-child key the row of its first child; next and previous choose the
\* row after and before the selected one, home and end the first and the last
\* row, always a row of the flattened sequence (stopping at its ends); a
\* chosen row becomes the selection when no node is being moved.
C32_NavigationStaysOnRows ==
    [][\A key \in NavKeys :
          (NavChose(key)' /\ last' # last) =>
             LET n == Len(flatNodes)
                 cur == SelectedRow
             IN /\ \E i \in 1..n : flatNodes[i].id = ChosenId'
                /\ key = "ArrowDown" =>
                      ChosenId' = flatNodes[IF cur = 0 THEN 1
                                            ELSE IF cur < n THEN cur + 1
                                            ELSE n].id
                /\ key = "ArrowUp" =>
                      ChosenId' = flatNodes[IF cur = 0 THEN n
                                            ELSE IF cur > 1 THEN cur - 1
                                            ELSE 1].id
                /\ key = "Home" => ChosenId' = flatNodes[1].id
                /\ key = "End" => ChosenId' = flatNodes[n].id
                /\ key = "ArrowLeft" =>
                      /\ cur # 0 /\ flatNodes[cur].depth > 0
                      /\ ChosenId' = ParentOf(treeData, selectedNodeId)
                /\ key = "ArrowRight" =>
                      /\ cur # 0
                      /\ ChosenId' =
                            NodeOf(treeData, selectedNodeId).children.items[1].id
                /\ nodeToMove = NoNode => selectedNodeId' = ChosenId']_vars

\* the parent key was pressed on a row whose parent is not the row before
\* it, and the parent got selected
C32_Witness ==
    /\ NavChose("ArrowLeft")
    /\ last.op = "select"
    /\ selectedNodeId = last.id
    /\ last.arg \in ChildIds(treeData, last.id)
    /\ NodeOf(treeData, last.id).children.items[1].id # last.arg

\* the next key was pressed on the last row and nothing was selected anew
C32_WitnessClamped ==
    /\ last.op = "keyDown" /\ last.key = "ArrowDown"
    /\ Len(flatNodes) > 1
    /\ flatNodes[Len(flatNodes)].id = selectedNodeId

\* C35: a key of directional navigation never changes the tree, whether a
\* node is being moved or not; it leaves the node being moved and the
\* checked set alone as well, and changes only the selection, the open set
\* and the loading set.
C35_NavigationKeepsTree ==
    [][(last'.key \in NavKeys /\ last' # last) =>
          UNCHANGED <<treeData, nodeToMove, checkedNodes>>]_vars

\* ------------------------------------------------------------------ update frame

\* a tree without the identity of its objects and, for the node id, without
\* the fields named in keys
RECURSIVE Masked(_, _, _)
Masked(nodes, id, keys) ==
    IF ~nodes.arr THEN nodes
    ELSE Arr([i \in 1..Len(nodes.items) |->
                 LET n == nodes.items[i]
                     hide(k) == n.id = id /\ k \in keys
                 IN [id |-> n.id,
                     name |-> IF hide("name") THEN "" ELSE n.name,
                     hasChildren |-> IF hide("hasChildren") THEN FALSE
                                     ELSE n.hasChildren,
                     children |-> Masked(n.children, id, keys)]])

\* C33: a successful updateNode(id, partial) changes only the fields of the
\* node id that partial names: its other fields, its declared hasChildren
\* among them, and every field of every other node are as they were,
\* whether the node is unloaded, loaded with no children or loaded.
C33_UpdateChangesOnlyNamedFields ==
    [][(Updates /\ last'.ret = "true" /\ last' # last) =>
          Masked(treeData', last'.id, last'.data[1].keys)
             = Masked(treeData, last'.id, last'.data[1].keys)]_vars

\* ------------------------------------------------------------------ move keeps the nodes

\* the id of the parent of the node id in the tree, NoId for a top-level node
ParentOrTop(nodes, id) ==
    LET a == AncestorsOf(nodes, id) IN IF Len(a) = 0 THEN NoId ELSE a[Len(a)]

\* the node id of the tree with all below it, without the identity of objects
SubtreeOf(nodes, id) == Masked(Arr(<<NodeOf(nodes, id)>>), NoId, {})

\* C34: a successful move neither loses nor duplicates nodes: the ids of the
\* tree and their number are as before, the moved node keeps its subtree
\* (descendants, order, loaded state) and every other node keeps its parent.
C34_MoveKeepsNodes ==
    [][(CompletesMove /\ last'.ret = "moved") =>
          /\ IdsOf(treeData') = IdsOf(treeData)
          /\ Len(Walk(treeData', <<>>)) = Len(Walk(treeData, <<>>))
          /\ SubtreeOf(treeData', last'.id) = SubtreeOf(treeData, last'.id)
          /\ \A n \in IdsOf(treeData) \ {last'.id} :
                ParentOrTop(treeData', n) = ParentOrTop(treeData, n)]_vars

\* a node with loaded children was moved under another parent
C34_Witness ==
    /\ last.op = "completeMove"
    /\ last.ret = "moved"
    /\ DescendantIds(treeData, last.id) # {}
    /\ ParentOrTop(treeData, last.id) # NoId

\* a move within the top level
C34_WitnessTop ==
    /\ last.op = "completeMove"
    /\ last.ret = "moved"
    /\ ParentOrTop(treeData, last.id) = NoId

\* ------------------------------------------------------------------ reload of the top level

\* the step is a successful removeNode of the only top-level node left
RemovesLastTopLevel ==
    /\ Removes
    /\ last'.ret = "true"
    /\ treeData.arr
    /\ Len(treeData.items) = 1
    /\ treeData.items[1].id = RemovedId

\* the step is a resolve of fetchTopLevelNodes
TopFetchResolves == last'.op = "topFetchResolved" /\ topFetches' < topFetches

\* the tree the first load gives
InitialTree == Arr([i \in 1..Len(TopLevelData) |-> TreeNode(TopLevelData[i])])

\* C36: removing the only top-level node left makes the tree null (not an
\* empty list) and starts the top-level fetch again; when a top-level fetch
\* resolves, the tree is the fetched top level, and the open set, the selection
\* and the checked set are what the first load gave: nothing open, the first
\* node selected, nothing checked.
C36_ReloadAfterLastRemoval ==
    [][/\ RemovesLastTopLevel =>
             /\ treeData' = Null
             /\ topFetches' = topFetches + 1
             /\ isLoadingInitial'
       /\ TopFetchResolves =>
             /\ treeData' = InitialTree
             /\ openNodes' = {}
             /\ selectedNodeId' = TopLevelData[1].id
             /\ checkedNodes' = {}
             /\ ~isLoadingInitial']_vars

\* the top level was fetched again after the last node was removed, while
\* the open set and the checked set still held ids
C36_Witness ==
    /\ last.op = "topFetchResolved"
    /\ last.arg = "reset"
    /\ budget.mut = MaxReloadRemovals
    /\ treeData = InitialTree
    /\ openNodes = {}
    /\ checkedNodes = {}

\* ------------------------------------------------------------------ parents follow their children

\* the ids of the nodes of the tree that have at least one loaded child
ParentIds(nodes) == {id \in IdsOf(nodes) : ChildIds(nodes, id) # {}}

\* C37: on a tree that does not change, from the empty checked set and after
\* any checkbox clicks on its rows, every node with loaded non-empty children
\* is in the checked set iff all of its direct children are.
C37_ParentCheckedIffAllChildren ==
    \A id \in ParentIds(treeData) :
       id \in checkedNodes <=> ChildIds(treeData, id) \subseteq checkedNodes

\* a parent came to be checked through clicks on each of its children
C37_Witness ==
    /\ last.op = "checkbox"
    /\ \E id \in ParentIds(treeData) :
          /\ id \in checkedNodes
          /\ last.id \in ChildIds(treeData, id)
          /\ Cardinality(ChildIds(treeData, id)) > 1
          /\ id \notin last.data[1]

\* the same two levels up: a click on the last unchecked grandchild
C37_WitnessTwoLevels ==
    /\ last.op = "checkbox"
    /\ \E id \in ParentIds(treeData) :
          /\ id \in checkedNodes
          /\ id \notin last.data[1]
          /\ id \in AncestorIds(treeData, ParentOrTop(treeData, last.id))

\* ------------------------------------------------------------------ checked folders that load later

\* C38: from the empty checked set and after any checkbox clicks and expands,
\* whenever a node with loaded non-empty children is in the checked set, all
\* of its loaded children are in the checked set too: the checked status of
\* a subtree is evaluated again once it is loaded.
C38_CheckedParentHasCheckedChildren ==
    \A id \in ParentIds(treeData) \cap checkedNodes :
       ChildIds(treeData, id) \subseteq checkedNodes

\* ------------------------------------------------------------------ removal and the checked set

\* C39: after a successful removeNode(id) the checked set holds no id of a
\* removed node, neither id nor any node that was below it, and when the
\* checked set changed onCheckedNodesChange was called with the new set.
C39_RemovedIdsLeaveCheckedSet ==
    [][(Removes /\ last'.ret = "true") =>
          /\ checkedNodes' \cap ({RemovedId} \cup DescendantIds(treeData, RemovedId))
                = {}
          /\ checkedNodes' # checkedNodes => last'.arg = "notified"]_vars

====
